---- MODULE Spec2Model ----
(***************************************************************************)
(* State-machine model of the simulation core of mini-2d-engine: the tile  *)
(* map (src/src/map/TileMap.ts) with its terrain catalogs, its procedural  *)
(* generation, its damage API and its geometry queries.                    *)
(*                                                                         *)
(* Units.  Pixel coordinates are JavaScript numbers and the program feeds  *)
(* the queries fractional values (a spawn position of a 49 px body is      *)
(* col*50 + 0.5).  Lengths are therefore counted in sub-pixels, Sub to the *)
(* pixel.  Probabilities and random draws are counted in 1/ProbScale.      *)
(* Time (the highlight timer) is counted in milliseconds.                  *)
(***************************************************************************)
EXTENDS Integers, Sequences, FiniteSets, TLC

\* ------------------------------------------------------------- bounds
\* Largest map width and height (tile counts) and largest tile count.
MaxWidth == 2
MaxHeight == 2
\* Largest tile count of a map that is damaged and drawn (Spec), and of a map
\* that is only queried (SpecQuery).
MaxCells == 2
MaxQueryCells == 4
\* Largest number of updates of one actor, and of one bullet.
MaxTicks == 2
MaxBulletTicks == 3
\* Largest number of changeScene calls, and of calls of a particle system.
MaxRequests == 3
MaxParticleOps == 5
\* Durability is not capped by the code; calls that would take it above
\* HpCap are left out so that the state space stays finite.
HpCap == 100
\* Sub-pixels per pixel.
Sub == 2
\* Velocity units per px/s, and frames per second: an update's delta is a
\* whole number of frames.
VelSub == 10
FrameHz == 16

\* ---------------------------------------------------------- constants
tileSize == 50
highlightDuration == 100
ProbScale == 100000

Px(n) == n * Sub
TileUnits == Px(tileSize)

\* Math.floor(a / b) and Math.ceil(a / b) for b > 0.
Floor(a, b) == a \div b
Ceil(a, b) == -((-a) \div b)
Max(a, b) == IF a >= b THEN a ELSE b
Min(a, b) == IF a <= b THEN a ELSE b

\* ------------------------------------------------------ terrain catalogs
DEFAULT == "default"
WATER == "water"
WALL == "wall"
MINERAL == "mineral"
Undefined == "undefined"

\* TILE_TYPES: speedFactor in hundredths; durability 0 stands for "absent".
TILE_TYPES ==
  [t \in {DEFAULT, WATER, WALL, MINERAL} |->
     CASE t = DEFAULT -> [speedFactor |-> 100, isDestructible |-> FALSE, durability |-> 0]
       [] t = WATER   -> [speedFactor |-> 50,  isDestructible |-> FALSE, durability |-> 0]
       [] t = WALL    -> [speedFactor |-> 0,   isDestructible |-> FALSE, durability |-> 0]
       [] t = MINERAL -> [speedFactor |-> 0,   isDestructible |-> TRUE,  durability |-> 100]]

\* getTileType: an unknown id falls back to the default type's entry.
getTileType(tileTypeId) ==
  IF tileTypeId \in DOMAIN TILE_TYPES THEN TILE_TYPES[tileTypeId] ELSE TILE_TYPES[DEFAULT]

\* TileMap.terrainConfigs, in list order.  maxHp 0 stands for "absent": the
\* code reads it only through `terrain?.maxHp ?? 0` and `!terrain.maxHp`,
\* which treat an absent maxHp and 0 alike.
terrainConfigs ==
  << [type |-> DEFAULT, walkable |-> TRUE,  baseProbability |-> 90000, inheritProbability |-> 80000, maxHp |-> 0],
     [type |-> WALL,    walkable |-> FALSE, baseProbability |-> 5000,  inheritProbability |-> 80000, maxHp |-> 0],
     [type |-> MINERAL, walkable |-> FALSE, baseProbability |-> 5000,  inheritProbability |-> 80000, maxHp |-> 100] >>

CatalogIds == {terrainConfigs[i].type : i \in DOMAIN terrainConfigs}

\* TileMap.terrainMap: type id -> its configuration.
terrainMap ==
  [t \in CatalogIds |-> terrainConfigs[CHOOSE i \in DOMAIN terrainConfigs : terrainConfigs[i].type = t]]

\* `terrain?.walkable`: an id without a configuration is not walkable.
Walkable(tileTypeId) == tileTypeId \in DOMAIN terrainMap /\ terrainMap[tileTypeId].walkable

\* Mutant: the durability of a new tile is never initialised from maxHp.
InitialHp_zero(key) == 0

\* `terrain?.maxHp ?? 0`
InitialHp(key) == IF key \in DOMAIN terrainMap THEN terrainMap[key].maxHp ELSE 0

\* ----------------------------------------------------------------- state
VARIABLES
  width, height,       \* TileMap.width, TileMap.height
  tiles,               \* TileMap.tiles[row][col]
  tileHp,              \* TileMap.tileHp[row][col]
  tileHighlight,       \* TileMap.tileHighlight[row][col], in ms
  phase,               \* "constructing" while the constructor's loop runs, then "ready"
  genRow, genCol,      \* the constructor's loop variables y and x
  lastCall,            \* the last call made: its name, its arguments, the target cell before it
  ret,                 \* what the last call returned: <<>> for nothing/null
  threw,               \* whether the last call threw
  actor,               \* the Entities object: position, velocity, heading
  bullet,              \* the Bullet object: position, velocity, damage, isDestroyed
  search,              \* the spawn search in progress: its loop counter and arguments
  tick,                \* the frame in progress: the position in GameScene.update, its inputs
  pickup,              \* the pickup spawn request in progress (GameScene.spawnPickupItem)
  weapon,              \* the Player's weapon timers, its firing flag and its state label
  sceneManager,        \* the SceneManager: current and next scene, the transition's clock
  particleSystem,      \* the ParticleSystem: the active particles and the pool
  stateMachine         \* a StateMachine: the registered states and the current one

grid == <<tiles, tileHp, tileHighlight>>
systems == <<weapon, sceneManager, particleSystem, stateMachine>>
scene == <<tick, pickup, systems>>
entities == <<actor, bullet, search, tick, pickup, systems>>
vars == <<width, height, tiles, tileHp, tileHighlight, phase, genRow, genCol, lastCall, ret, threw,
          actor, bullet, search, tick, pickup, weapon,
          sceneManager, particleSystem, stateMachine>>

Rows == 0 .. (height - 1)
Cols == 0 .. (width - 1)
InRange(col, row) == ~(row < 0 \/ col < 0 \/ row >= height \/ col >= width)
Call(op, args, before) == [op |-> op, args |-> args, before |-> before]
CellOf(col, row) == IF InRange(col, row) THEN <<tiles[row][col], tileHp[row][col]>> ELSE <<>>

\* No actor, no bullet and no spawn search exist yet.
NoActor ==
  [live |-> FALSE, x |-> 0, y |-> 0, vx |-> 0, vy |-> 0,
   currentRotation |-> 0, rotationStrategy |-> "auto", n |-> 0]
NoBullet ==
  [live |-> FALSE, x |-> 0, y |-> 0, vx |-> 0, vy |-> 0, damage |-> 0,
   isDestroyed |-> FALSE, n |-> 0, delta |-> 0, hits |-> 0, cause |-> ""]
NoSearch ==
  [op |-> "none", status |-> "idle", attempts |-> 0, size |-> 0,
   x |-> 0, y |-> 0, width |-> 0, height |-> 0]
NoTick ==
  [pc |-> "idle", delta |-> 0, move |-> [x |-> 0, y |-> 0], look |-> [x |-> 0, y |-> 0],
   coin |-> FALSE, n |-> 0]
NoPickup == [status |-> "idle", attempts |-> 0, caught |-> 0]

\* Player's weapon fields, in ms, as their initialisers and the constructor
\* leave them.  fired, sinceShot, sinceAny, gap and n are bookkeeping: the
\* bullets the last update created, the time that updates have spent in the
\* non-overheated branch since the last bullet and the time of all updates
\* since then (both counted up to fireRate), the value sinceShot had when the
\* last bullet was created, the updates made (counted up to MaxTicks).
fireRate == 100
maxShootingTime == 3500
maxOverheatCooldownTime == 1000
NewWeapon ==
  [isShooting |-> FALSE, fireCooldown |-> 0, shootingTimeRemaining |-> maxShootingTime,
   overheatCooldownRemaining |-> maxOverheatCooldownTime, isOverheated |-> FALSE,
   label |-> "idle", fired |-> 0, sinceShot |-> fireRate, sinceAny |-> fireRate,
   gap |-> fireRate, n |-> 0]
\* No scene: the null of SceneManager.currentScene and nextScene.
NoScene == 0
\* The default of changeScene's duration, in ms.
defaultDuration == 500
\* A new SceneManager. Besides its fields: the scenes whose onEnter has been
\* called, the hooks the last call made in their order, the time of the
\* updates since the last changeScene (counted up to the requested duration),
\* the number of changeScene calls (counted up to MaxRequests).
NewSceneManager ==
  [currentScene |-> NoScene, nextScene |-> NoScene, transitionTime |-> 0,
   transitionDuration |-> defaultDuration, isTransitioning |-> FALSE,
   entered |-> {}, hooks |-> <<>>, since |-> 0, requests |-> 0]
\* The limits of the particle list and of the pool.
maxParticles == 1000
maxPooled == 200
\* A new ParticleSystem. A particle is its identity and its remaining life in
\* ms; the pool holds identities. Besides the fields: the particles
\* constructed so far, the calls made (counted up to MaxParticleOps).
NewParticleSystem == [particles |-> <<>>, particlePool |-> <<>>, made |-> 0, n |-> 0]
\* A new StateMachine: no state registered, no current state. A state is its
\* name and the callbacks it defines, NoState stands for undefined. Besides
\* the fields: the callbacks the last call invoked, in their order.
NoState == [name |-> "", callbacks |-> {}]
NewStateMachine == [states |-> << >>, currentState |-> NoState, hooks |-> <<>>]
NoSystems ==
  /\ weapon = NewWeapon
  /\ sceneManager = NewSceneManager
  /\ particleSystem = NewParticleSystem
  /\ stateMachine = NewStateMachine
NoEntities ==
  actor = NoActor /\ bullet = NoBullet /\ search = NoSearch /\ tick = NoTick /\ pickup = NoPickup /\ NoSystems

\* ------------------------------------------------- construction (generation)
\* The values Math.random() takes, in 1/ProbScale: both sides of every
\* threshold the constructor compares a draw with.
RandomDraws == {0, 50000, 79999, 80000, 89999, 90000, 94999, 95000, 99999}

\* noise(): Math.min(Math.random(), 0.9999)
noise(r) == Min(r, ProbScale - ProbScale \div 10000)

\* cumulativeProbs[i].threshold: the sum of the first i base probabilities.
RECURSIVE Threshold(_)
Threshold(i) == IF i = 0 THEN 0 ELSE Threshold(i - 1) + terrainConfigs[i].baseProbability

\* Mutant: the last entry whose threshold exceeds the sample is taken.
SampledType_last(n) ==
  LET matches == {i \in DOMAIN terrainConfigs : n < Threshold(i)}
  IN  IF matches = {} THEN DEFAULT
      ELSE terrainConfigs[CHOOSE i \in matches : \A j \in matches : i >= j].type

\* cumulativeProbs.find(t => n < t.threshold), falling back to DEFAULT.
SampledType(n) ==
  LET matches == {i \in DOMAIN terrainConfigs : n < Threshold(i)}
  IN  IF matches = {} THEN DEFAULT
      ELSE terrainConfigs[CHOOSE i \in matches : \A j \in matches : i <= j].type

\* The neighbours the constructor gathers for cell (x, y): left, then top.
Neighbors(x, y) ==
  (IF x > 0 THEN <<tiles[y][x - 1]>> ELSE <<>>) \o (IF y > 0 THEN <<tiles[y - 1][x]>> ELSE <<>>)

\* `terrainMap.get(neighborKey)?.inheritProbability ?? 0.5`
InheritProb(neighborKey) ==
  IF neighborKey \in DOMAIN terrainMap THEN terrainMap[neighborKey].inheritProbability
  ELSE ProbScale \div 2

\* The final type of cell (x, y) for the three draws of its iteration.
FinalType(x, y, r1, r2, r3) ==
  LET key == SampledType(noise(r1))
      neighbors == Neighbors(x, y)
  IN  IF Len(neighbors) > 0
      THEN LET neighborKey == neighbors[Floor(r2 * Len(neighbors), ProbScale) + 1]
           IN  IF r3 < InheritProb(neighborKey) THEN neighborKey ELSE key
      ELSE key

\* One iteration of the constructor's generation loop: cell (genCol, genRow).
GenCell(r1, r2, r3) ==
  /\ phase = "constructing"
  /\ LET key == FinalType(genCol, genRow, r1, r2, r3)
     IN  /\ tiles' = [tiles EXCEPT ![genRow][genCol] = key]
         /\ tileHp' = [tileHp EXCEPT ![genRow][genCol] = InitialHp(key)]
  /\ IF genCol + 1 < width
     THEN genCol' = genCol + 1 /\ genRow' = genRow
     ELSE genCol' = 0 /\ genRow' = genRow + 1
  /\ phase' = IF genRow' < height THEN "constructing" ELSE "ready"
  /\ lastCall' = Call("constructor", <<width, height>>, <<>>)
  /\ UNCHANGED <<width, height, tileHighlight, ret, threw>>

\* new TileMap(width, height) on entry to the generation loop: the highlight
\* array is filled with 0, no cell has a type or a durability yet.
Construction(maxCells) ==
  /\ width \in 1 .. MaxWidth
  /\ height \in 1 .. MaxHeight
  /\ width * height <= maxCells
  /\ tiles = [row \in Rows |-> [col \in Cols |-> Undefined]]
  /\ tileHp = [row \in Rows |-> [col \in Cols |-> Undefined]]
  /\ tileHighlight = [row \in Rows |-> [col \in Cols |-> 0]]
  /\ phase = "constructing"
  /\ genRow = 0
  /\ genCol = 0
  /\ lastCall = Call("constructor", <<width, height>>, <<>>)
  /\ ret = <<>>
  /\ threw = FALSE

\* ------------------------------------------------------ damage & destruction
\* Mutant: the durability is not clamped at 0.
DamagedHp_noClamp(hp, amount) == hp - amount

\* damageTile, lines 188-195: the durability left by a hit of `amount`.
DamagedHp(hp, amount) == IF hp - amount <= 0 THEN 0 ELSE hp - amount

\* Mutant: the tile is replaced only below 0 (`<` for `<=`).
DamagedType_strict(tileTypeId, hp, amount) == IF hp - amount < 0 THEN DEFAULT ELSE tileTypeId

\* Mutant: the tile is never replaced.
DamagedType_noReset(tileTypeId, hp, amount) == tileTypeId

\* damageTile, lines 192-195: the type left by a hit of `amount`.
DamagedType(tileTypeId, hp, amount) == IF hp - amount <= 0 THEN DEFAULT ELSE tileTypeId

\* Mutant: every tile with a terrain configuration is hit.
Damageable_terrainOnly(tileTypeId) == tileTypeId \in DOMAIN terrainMap

\* damageTile, line 185: only a destructible tile with a max durability is hit.
Damageable(tileTypeId) ==
  ~(\/ tileTypeId \notin DOMAIN terrainMap
    \/ ~getTileType(tileTypeId).isDestructible
    \/ terrainMap[tileTypeId].maxHp = 0)

DamageTile(col, row, amount) ==
  /\ phase = "ready"
  /\ lastCall' = Call("damageTile", <<col, row, amount>>, CellOf(col, row))
  /\ IF ~InRange(col, row) THEN UNCHANGED grid
     ELSE IF ~Damageable(tiles[row][col]) THEN UNCHANGED grid
     ELSE /\ tileHp' = [tileHp EXCEPT ![row][col] = DamagedHp(tileHp[row][col], amount)]
          /\ tileHighlight' = [tileHighlight EXCEPT ![row][col] = highlightDuration]
          /\ tiles' = [tiles EXCEPT ![row][col] = DamagedType(tiles[row][col], tileHp[row][col], amount)]
  /\ ret' = <<>>
  /\ threw' = FALSE
  /\ UNCHANGED <<width, height, phase, genRow, genCol>>

\* Mutant: the durability of a broken tile is not cleared.
BreakTile_keepHp(col, row) ==
  /\ phase = "ready"
  /\ lastCall' = Call("breakTile", <<col, row>>, CellOf(col, row))
  /\ IF InRange(col, row)
     THEN /\ tiles' = [tiles EXCEPT ![row][col] = DEFAULT]
          /\ UNCHANGED <<tileHp, tileHighlight>>
     ELSE UNCHANGED grid
  /\ ret' = <<>>
  /\ threw' = FALSE
  /\ UNCHANGED <<width, height, phase, genRow, genCol>>

BreakTile(col, row) ==
  /\ phase = "ready"
  /\ lastCall' = Call("breakTile", <<col, row>>, CellOf(col, row))
  /\ IF InRange(col, row)
     THEN /\ tiles' = [tiles EXCEPT ![row][col] = DEFAULT]
          /\ tileHp' = [tileHp EXCEPT ![row][col] = 0]
          /\ UNCHANGED tileHighlight
     ELSE UNCHANGED grid
  /\ ret' = <<>>
  /\ threw' = FALSE
  /\ UNCHANGED <<width, height, phase, genRow, genCol>>

\* draw: the part that changes state, the decay of the highlight timers of
\* the tiles in view.  Every tile has a terrain configuration, so none is
\* skipped.
Draw(cameraX, cameraY, canvasWidth, canvasHeight, delta) ==
  LET startCol == Max(0, Floor(cameraX, TileUnits))
      endCol == Min(width - 1, Ceil(cameraX + canvasWidth, TileUnits))
      startRow == Max(0, Floor(cameraY, TileUnits))
      endRow == Min(height - 1, Ceil(cameraY + canvasHeight, TileUnits))
  IN  /\ phase = "ready"
      /\ lastCall' = Call("draw", <<cameraX, cameraY, canvasWidth, canvasHeight, delta>>, <<>>)
      /\ tileHighlight' =
           [row \in Rows |-> [col \in Cols |->
              IF /\ row \in startRow .. endRow
                 /\ col \in startCol .. endCol
                 /\ tiles[row][col] \in DOMAIN terrainMap
                 /\ tileHighlight[row][col] > 0
              THEN Max(0, tileHighlight[row][col] - delta)
              ELSE tileHighlight[row][col]]]
      /\ ret' = <<>>
      /\ threw' = FALSE
      /\ UNCHANGED <<width, height, tiles, tileHp, phase, genRow, genCol>>

\* ------------------------------------------------------- geometry queries
\* Mutant: the last column and row are those of the pixel after the square.
isWalkableArea_inclusive(x, y, size) ==
  LET startCol == Floor(x, TileUnits)
      endCol == Floor(x + size, TileUnits)
      startRow == Floor(y, TileUnits)
      endRow == Floor(y + size, TileUnits)
  IN  \A row \in startRow .. endRow, col \in startCol .. endCol :
        InRange(col, row) /\ Walkable(tiles[row][col])

isWalkableArea(x, y, size) ==
  LET startCol == Floor(x, TileUnits)
      endCol == Floor(x + size - Px(1), TileUnits)
      startRow == Floor(y, TileUnits)
      endRow == Floor(y + size - Px(1), TileUnits)
  IN  \A row \in startRow .. endRow, col \in startCol .. endCol :
        InRange(col, row) /\ Walkable(tiles[row][col])

isCollidingRect(x, y, w, h) ==
  IF x < 0 \/ y < 0 \/ x + w > width * TileUnits \/ y + h > height * TileUnits
  THEN TRUE
  ELSE LET leftCol == Floor(x, TileUnits)
           rightCol == Floor(x + w - Px(1), TileUnits)
           topRow == Floor(y, TileUnits)
           bottomRow == Floor(y + h - Px(1), TileUnits)
       IN  \E row \in topRow .. bottomRow, col \in leftCol .. rightCol :
             ~Walkable(tiles[row][col])

\* The first hit of the row-major scan as <<row, col, health>>, <<>> for null.
getTileAtRect(x, y, size) ==
  LET startCol == Floor(x, TileUnits)
      endCol == Floor(x + size - Px(1), TileUnits)
      startRow == Floor(y, TileUnits)
      endRow == Floor(y + size - Px(1), TileUnits)
      hits == {rc \in (startRow .. endRow) \X (startCol .. endCol) :
                 InRange(rc[2], rc[1]) /\ ~Walkable(tiles[rc[1]][rc[2]])}
  IN  IF hits = {} THEN <<>>
      ELSE LET first == CHOOSE rc \in hits : \A o \in hits :
                          rc[1] < o[1] \/ (rc[1] = o[1] /\ rc[2] <= o[2])
           IN  <<first[1], first[2], tileHp[first[1]][first[2]]>>

\* Mutant: the cell index is rounded up instead of down.
getSpeedFactor_ceil(x, y) ==
  LET col == Ceil(x, TileUnits)
      row == Ceil(y, TileUnits)
  IN  IF row < 0 \/ col < 0 \/ row >= height \/ col >= width
      THEN 100
      ELSE getTileType(tiles[row][col]).speedFactor

\* getSpeedFactor, in hundredths: 1.0 outside the grid, else the speed factor
\* that getTileSpeedFactor reads from TILE_TYPES.
getSpeedFactor(x, y) ==
  LET col == Floor(x, TileUnits)
      row == Floor(y, TileUnits)
  IN  IF row < 0 \/ col < 0 \/ row >= height \/ col >= width
      THEN 100
      ELSE getTileType(tiles[row][col]).speedFactor

CallIsWalkableArea(x, y, size) ==
  /\ phase = "ready"
  /\ lastCall' = Call("isWalkableArea", <<x, y, size>>, <<>>)
  /\ ret' = <<isWalkableArea(x, y, size)>>
  /\ threw' = FALSE
  /\ UNCHANGED <<width, height, grid, phase, genRow, genCol>>

CallIsCollidingRect(x, y, w, h) ==
  /\ phase = "ready"
  /\ lastCall' = Call("isCollidingRect", <<x, y, w, h>>, <<>>)
  /\ ret' = <<isCollidingRect(x, y, w, h)>>
  /\ threw' = FALSE
  /\ UNCHANGED <<width, height, grid, phase, genRow, genCol>>

CallGetTileAtRect(x, y, size) ==
  /\ phase = "ready"
  /\ lastCall' = Call("getTileAtRect", <<x, y, size>>, <<>>)
  /\ ret' = getTileAtRect(x, y, size)
  /\ threw' = FALSE
  /\ UNCHANGED <<width, height, grid, phase, genRow, genCol>>

CallGetSpeedFactor(x, y) ==
  /\ phase = "ready"
  /\ lastCall' = Call("getSpeedFactor", <<x, y>>, <<>>)
  /\ ret' = <<getSpeedFactor(x, y)>>
  /\ threw' = FALSE
  /\ UNCHANGED <<width, height, grid, phase, genRow, genCol>>

\* --------------------------------------------------- actor kinematics
\* Entities (src/unnamed/part_001).  Velocities are counted in 1/VelSub px/s,
\* time in frames of 1/FrameHz s, angles in 1/10000 rad, direction components
\* in 1/10000.  Square roots and quotients are rounded towards zero.
actorSize == 49
maxSpeed == 400
accel == 4000
decel == 1200
\* nonlinearFactor 0.5, in thousandths
nonlinearFactor == 500
\* Math.PI, and the 0.01 rad half-width of the reversal band
Pi == 31416
reversalBand == 100
\* rotationSpeed = Math.PI * 4: the factor of Math.PI
rotationSpeed == 4

\* The truncating quotient and the remainder of JavaScript's `%`, whose sign
\* is the sign of the dividend.
Quot(a, b) == IF a >= 0 THEN a \div b ELSE -((-a) \div b)
JsMod(a, b) == IF a >= 0 THEN a % b ELSE -((-a) % b)
Abs(a) == IF a >= 0 THEN a ELSE -a
Sign(a) == IF a > 0 THEN 1 ELSE IF a < 0 THEN -1 ELSE 0

\* Math.sqrt, rounded down.
isqrt[n \in Nat] ==
  IF n < 2 THEN n
  ELSE CHOOSE r \in {s + b : s \in {2 * isqrt[n \div 4]}, b \in {0, 1}} :
         r * r <= n /\ (r + 1) * (r + 1) > n
Sqrt(n) == isqrt[n]

\* Vector2.length
Length(x, y) == Sqrt(x * x + y * y)

\* Math.atan2(y, x): exact on the eight compass directions, within 0.004 rad
\* elsewhere (atan t ~ t*pi/4 + 0.273*t*(1 - t) for 0 <= t <= 1).
atan2(y, x) ==
  LET ax == Abs(x)
      ay == Abs(y)
      t == IF ay <= ax THEN (ay * 1000) \div ax ELSE (ax * 1000) \div ay
      at == ((Pi \div 4) * t) \div 1000 + (((2730 * t) \div 1000) * (1000 - t)) \div 1000
      phi == IF ay <= ax THEN at ELSE Pi \div 2 - at
  IN  IF x = 0 /\ y = 0 THEN 0
      ELSE IF x >= 0 /\ y >= 0 THEN phi
      ELSE IF x < 0 /\ y >= 0 THEN Pi - phi
      ELSE IF x < 0 THEN phi - Pi
      ELSE -phi

\* limitPosition: mapWidth is computed as map.width * map.width.
limitPosition(a) ==
  LET mapWidth == width * width
      mapHeight == height * tileSize
  IN  [a EXCEPT !.x = Max(0, Min(Px(mapWidth) - Px(actorSize), a.x)),
                !.y = Max(0, Min(Px(mapHeight) - Px(actorSize), a.y))]

\* moveDir.clone().scale(maxSpeed).scale(speedFactor), with
\* speedFactor = map.getSpeedFactor(x, y) || 1.
targetVelocity(a, dir) ==
  LET factor == getSpeedFactor(a.x, a.y)
      speedFactor == IF factor = 0 THEN 100 ELSE factor
  IN  [x |-> Quot(Quot(dir.x * maxSpeed * VelSub, 10000) * speedFactor, 100),
       y |-> Quot(Quot(dir.y * maxSpeed * VelSub, 10000) * speedFactor, 100)]

\* acceleration * delta * Math.sqrt(...), the largest change of velocity.
maxDelta(a, targetVel, dir, delta) ==
  LET hasInput == dir.x # 0 \/ dir.y # 0
      acceleration == IF hasInput THEN accel ELSE decel
      targetSpeed == Length(targetVel.x, targetVel.y)
      currentSpeed == Length(a.vx, a.vy)
      speedRatio == IF targetSpeed > 0 THEN (currentSpeed * 1000) \div targetSpeed ELSE 0
      radicand == IF hasInput THEN speedRatio + nonlinearFactor
                  ELSE 1000 - speedRatio + nonlinearFactor
  IN  (((acceleration * VelSub * delta) \div FrameHz) * Sqrt(radicand * 1000)) \div 1000

\* Mutant: the change of velocity always has the length maxDelta, also when
\* the target is nearer than that.
updateVelocityNonlinear_overshoot(a, targetVel, dir, delta) ==
  LET dx == targetVel.x - a.vx
      dy == targetVel.y - a.vy
      diffLen == Length(dx, dy)
      md == maxDelta(a, targetVel, dir, delta)
  IN  IF diffLen > 0
      THEN [a EXCEPT !.vx = a.vx + Quot(dx * md, diffLen), !.vy = a.vy + Quot(dy * md, diffLen)]
      ELSE a

\* Mutant: a velocity shorter than 1 is kept.
updateVelocityNonlinear_creep(a, targetVel, dir, delta) ==
  LET dx == targetVel.x - a.vx
      dy == targetVel.y - a.vy
      diffLen == Length(dx, dy)
      md == maxDelta(a, targetVel, dir, delta)
      clamped == diffLen > md
  IN  IF diffLen > 0
      THEN [a EXCEPT !.vx = a.vx + (IF clamped THEN Quot(dx * md, diffLen) ELSE dx),
                     !.vy = a.vy + (IF clamped THEN Quot(dy * md, diffLen) ELSE dy)]
      ELSE a

updateVelocityNonlinear(a, targetVel, dir, delta) ==
  LET dx == targetVel.x - a.vx
      dy == targetVel.y - a.vy
      diffLen == Length(dx, dy)
      md == maxDelta(a, targetVel, dir, delta)
      clamped == diffLen > md
      vx == IF diffLen > 0
            THEN a.vx + (IF clamped THEN Quot(dx * md, diffLen) ELSE dx) ELSE a.vx
      vy == IF diffLen > 0
            THEN a.vy + (IF clamped THEN Quot(dy * md, diffLen) ELSE dy) ELSE a.vy
  IN  IF vx * vx + vy * vy < VelSub * VelSub
      THEN [a EXCEPT !.vx = 0, !.vy = 0]
      ELSE [a EXCEPT !.vx = vx, !.vy = vy]

\* Mutant: the direction of the velocity is preferred to the look direction.
targetAngle_velocityFirst(a, inputDir) ==
  IF a.vx # 0 \/ a.vy # 0 THEN <<atan2(a.vy, a.vx) + Pi>>
  ELSE IF inputDir.x # 0 \/ inputDir.y # 0 THEN <<atan2(inputDir.y, inputDir.x) + Pi>>
  ELSE <<>>

\* The target heading as <<angle>>, <<>> for null: the look direction if
\* there is one, else the direction of the velocity.
targetAngle(a, inputDir) ==
  IF inputDir.x # 0 \/ inputDir.y # 0 THEN <<atan2(inputDir.y, inputDir.x) + Pi>>
  ELSE IF a.vx # 0 \/ a.vy # 0 THEN <<atan2(a.vy, a.vx) + Pi>>
  ELSE <<>>

\* ((angleDiff + Math.PI) % (2 * Math.PI)) - Math.PI
normalizeAngle(angle) == JsMod(angle + Pi, 2 * Pi) - Pi

\* Mutant: a reversal is resolved by the coin under every strategy.
resolveReversal_coin(angleDiff, strategy, coin) ==
  IF Abs(angleDiff) > Pi - reversalBand /\ Abs(angleDiff) < Pi + reversalBand
  THEN IF coin THEN Pi ELSE -Pi
  ELSE angleDiff

\* The difference after the special handling of a reversal; coin is the
\* outcome of `Math.random() > 0.5`.
resolveReversal(angleDiff, strategy, coin) ==
  IF Abs(angleDiff) > Pi - reversalBand /\ Abs(angleDiff) < Pi + reversalBand
  THEN IF strategy = "cw" THEN Pi
       ELSE IF strategy = "ccw" THEN -Pi
       ELSE IF coin THEN Pi ELSE -Pi
  ELSE angleDiff

\* The signed difference that updateRotation turns by.
angleDiffOf(a, target, coin) ==
  resolveReversal(normalizeAngle(target - a.currentRotation), a.rotationStrategy, coin)

\* Mutant: the heading jumps to the target whatever the difference.
turn_unclamped(a, maxRotation, inputDir, coin) ==
  LET target == targetAngle(a, inputDir)
  IN  IF target = <<>> THEN a
      ELSE [a EXCEPT !.currentRotation = normalizeAngle(target[1])]

\* updateRotation for a frame in which rotationSpeed * delta is maxRotation.
turn(a, maxRotation, inputDir, coin) ==
  LET target == targetAngle(a, inputDir)
      angleDiff == angleDiffOf(a, target[1], coin)
      turned == IF Abs(angleDiff) > maxRotation
                THEN a.currentRotation + Sign(angleDiff) * maxRotation
                ELSE target[1]
  IN  IF target = <<>> THEN a
      ELSE [a EXCEPT !.currentRotation = normalizeAngle(turned)]

updateRotation(a, delta, inputDir, coin) ==
  turn(a, (rotationSpeed * Pi * delta) \div FrameHz, inputDir, coin)

\* velocity * delta, in sub-pixels
displacement(v, delta) == Quot(v * delta * Sub, VelSub * FrameHz)

\* Mutant: the y move is tested from the x the step found, not from the x
\* it has just committed.
updatePosition_staleX(a, delta) ==
  LET newX == a.x + displacement(a.vx, delta)
      newY == a.y + displacement(a.vy, delta)
      afterX ==
        IF Abs(a.vx) * 10 > VelSub
        THEN IF ~isCollidingRect(newX, a.y, Px(actorSize), Px(actorSize))
             THEN [a EXCEPT !.x = newX]
             ELSE [a EXCEPT !.vx = 0]
        ELSE a
  IN  IF Abs(a.vy) * 10 > VelSub
      THEN IF ~isCollidingRect(a.x, newY, Px(actorSize), Px(actorSize))
           THEN [afterX EXCEPT !.y = newY]
           ELSE [afterX EXCEPT !.vy = 0]
      ELSE afterX

\* updatePosition with a map: the x move, then the y move from the x it left.
updatePosition(a, delta) ==
  LET newX == a.x + displacement(a.vx, delta)
      newY == a.y + displacement(a.vy, delta)
      afterX ==
        IF Abs(a.vx) * 10 > VelSub
        THEN IF ~isCollidingRect(newX, a.y, Px(actorSize), Px(actorSize))
             THEN [a EXCEPT !.x = newX]
             ELSE [a EXCEPT !.vx = 0]
        ELSE a
  IN  IF Abs(a.vy) * 10 > VelSub
      THEN IF ~isCollidingRect(afterX.x, newY, Px(actorSize), Px(actorSize))
           THEN [afterX EXCEPT !.y = newY]
           ELSE [afterX EXCEPT !.vy = 0]
      ELSE afterX

\* Entities.update(delta, input, map) as a function of the actor.
updated(a, delta, moveDir, lookDir, coin) ==
  LET limited == limitPosition(a)
      targetVel == targetVelocity(limited, moveDir)
      accelerated == updateVelocityNonlinear(limited, targetVel, moveDir, delta)
      rotated == updateRotation(accelerated, delta, lookDir, coin)
  IN  updatePosition(rotated, delta)

\* new Entities(x, y): velocity and heading start at 0.
NewActor(x, y, strategy) ==
  /\ phase = "ready"
  /\ ~actor.live
  /\ actor' = [live |-> TRUE, x |-> x, y |-> y, vx |-> 0, vy |-> 0,
               currentRotation |-> 0, rotationStrategy |-> strategy, n |-> 0]
  /\ lastCall' = Call("Entities", <<x, y>>, <<>>)
  /\ ret' = <<>>
  /\ threw' = FALSE
  /\ UNCHANGED <<width, height, grid, phase, genRow, genCol, bullet, search, scene>>

\* actor.update(delta, input, map); `before` keeps the actor the call found.
ActorUpdate(delta, moveDir, lookDir, coin) ==
  /\ phase = "ready"
  /\ actor.live
  /\ actor' = [updated(actor, delta, moveDir, lookDir, coin) EXCEPT !.n = actor.n + 1]
  /\ lastCall' = Call("update", <<delta, moveDir, lookDir, coin>>, actor)
  /\ ret' = <<>>
  /\ threw' = FALSE
  /\ UNCHANGED <<width, height, grid, phase, genRow, genCol, bullet, search, scene>>

\* this.updateRotation(delta, lookDir) alone, for a frame of any length:
\* maxRotation is rotationSpeed * delta.
ActorTurn(maxRotation, lookDir, coin) ==
  /\ phase = "ready"
  /\ actor.live
  /\ actor' = [turn(actor, maxRotation, lookDir, coin) EXCEPT !.n = actor.n + 1]
  /\ lastCall' = Call("updateRotation", <<maxRotation, lookDir, coin>>, actor)
  /\ ret' = <<>>
  /\ threw' = FALSE
  /\ UNCHANGED <<width, height, grid, phase, genRow, genCol, bullet, search, scene>>

\* ----------------------------------------------- projectile kinematics
\* Bullet (src/src/objects/ParticleSystem.ts); Player.bulletSpeed.
bulletSize == 10
bulletSpeed == 800

\* pos + velocity * delta
candidate(b, delta) ==
  [x |-> b.x + displacement(b.vx, delta), y |-> b.y + displacement(b.vy, delta)]

\* Mutant: a bullet beyond the right or the bottom edge is not seen as gone.
leftMap_nearEdges(newX, newY) ==
  \/ newX + Px(bulletSize) < 0
  \/ newY + Px(bulletSize) < 0

\* newX + size < 0 || newX > mapPixelWidth || newY + size < 0 || newY > mapPixelHeight
leftMap(newX, newY) ==
  \/ newX + Px(bulletSize) < 0
  \/ newX > width * TileUnits
  \/ newY + Px(bulletSize) < 0
  \/ newY > height * TileUnits

\* Mutant: a destroyed bullet is updated like a live one.
bulletOutcome_noEarlyReturn(b, delta) ==
  LET new == candidate(b, delta)
      hit == getTileAtRect(new.x, new.y, Px(bulletSize))
  IN  IF hit # <<>>
      THEN [kind |-> "hit", row |-> hit[1], col |-> hit[2],
            bullet |-> [b EXCEPT !.isDestroyed = TRUE]]
      ELSE IF leftMap(new.x, new.y)
      THEN [kind |-> "left", row |-> 0, col |-> 0, bullet |-> [b EXCEPT !.isDestroyed = TRUE]]
      ELSE [kind |-> "moved", row |-> 0, col |-> 0, bullet |-> [b EXCEPT !.x = new.x, !.y = new.y]]

\* Mutant: a bullet that hits a tile is advanced into it.
bulletOutcome_advanceOnHit(b, delta) ==
  LET new == candidate(b, delta)
      hit == getTileAtRect(new.x, new.y, Px(bulletSize))
  IN  IF b.isDestroyed THEN [kind |-> "inert", row |-> 0, col |-> 0, bullet |-> b]
      ELSE IF hit # <<>>
      THEN [kind |-> "hit", row |-> hit[1], col |-> hit[2],
            bullet |-> [b EXCEPT !.isDestroyed = TRUE, !.x = new.x, !.y = new.y]]
      ELSE IF leftMap(new.x, new.y)
      THEN [kind |-> "left", row |-> 0, col |-> 0, bullet |-> [b EXCEPT !.isDestroyed = TRUE]]
      ELSE [kind |-> "moved", row |-> 0, col |-> 0, bullet |-> [b EXCEPT !.x = new.x, !.y = new.y]]

\* Mutant: a bullet is destroyed as soon as its box crosses the map's edge.
bulletOutcome_crossing(b, delta) ==
  LET new == candidate(b, delta)
      hit == getTileAtRect(new.x, new.y, Px(bulletSize))
      crossing == \/ new.x < 0 \/ new.x + Px(bulletSize) > width * TileUnits
                  \/ new.y < 0 \/ new.y + Px(bulletSize) > height * TileUnits
  IN  IF b.isDestroyed THEN [kind |-> "inert", row |-> 0, col |-> 0, bullet |-> b]
      ELSE IF hit # <<>>
      THEN [kind |-> "hit", row |-> hit[1], col |-> hit[2],
            bullet |-> [b EXCEPT !.isDestroyed = TRUE]]
      ELSE IF crossing
      THEN [kind |-> "left", row |-> 0, col |-> 0, bullet |-> [b EXCEPT !.isDestroyed = TRUE]]
      ELSE [kind |-> "moved", row |-> 0, col |-> 0, bullet |-> [b EXCEPT !.x = new.x, !.y = new.y]]

\* Mutant: swept collision, the box is also tested half-way along its path.
bulletOutcome_swept(b, delta) ==
  LET new == candidate(b, delta)
      atEnd == getTileAtRect(new.x, new.y, Px(bulletSize))
      midway == getTileAtRect((b.x + new.x) \div 2, (b.y + new.y) \div 2, Px(bulletSize))
      hit == IF midway # <<>> THEN midway ELSE atEnd
  IN  IF b.isDestroyed THEN [kind |-> "inert", row |-> 0, col |-> 0, bullet |-> b]
      ELSE IF hit # <<>>
      THEN [kind |-> "hit", row |-> hit[1], col |-> hit[2],
            bullet |-> [b EXCEPT !.isDestroyed = TRUE]]
      ELSE IF leftMap(new.x, new.y)
      THEN [kind |-> "left", row |-> 0, col |-> 0, bullet |-> [b EXCEPT !.isDestroyed = TRUE]]
      ELSE [kind |-> "moved", row |-> 0, col |-> 0, bullet |-> [b EXCEPT !.x = new.x, !.y = new.y]]

\* Mutant: a bullet that hits a tile damages it and stays alive.
bulletOutcome_piercing(b, delta) ==
  LET new == candidate(b, delta)
      hit == getTileAtRect(new.x, new.y, Px(bulletSize))
  IN  IF b.isDestroyed THEN [kind |-> "inert", row |-> 0, col |-> 0, bullet |-> b]
      ELSE IF hit # <<>>
      THEN [kind |-> "hit", row |-> hit[1], col |-> hit[2], bullet |-> b]
      ELSE IF leftMap(new.x, new.y)
      THEN [kind |-> "left", row |-> 0, col |-> 0, bullet |-> [b EXCEPT !.isDestroyed = TRUE]]
      ELSE [kind |-> "moved", row |-> 0, col |-> 0, bullet |-> [b EXCEPT !.x = new.x, !.y = new.y]]

\* Bullet.update(delta, map): which way the update goes ("inert" for the early
\* return, "hit", "left" for a bullet that has left the map, "moved"), the cell
\* it hits, and the bullet it leaves.
bulletOutcome(b, delta) ==
  LET new == candidate(b, delta)
      hit == getTileAtRect(new.x, new.y, Px(bulletSize))
  IN  IF b.isDestroyed THEN [kind |-> "inert", row |-> 0, col |-> 0, bullet |-> b]
      ELSE IF hit # <<>>
      THEN [kind |-> "hit", row |-> hit[1], col |-> hit[2],
            bullet |-> [b EXCEPT !.isDestroyed = TRUE]]
      ELSE IF leftMap(new.x, new.y)
      THEN [kind |-> "left", row |-> 0, col |-> 0, bullet |-> [b EXCEPT !.isDestroyed = TRUE]]
      ELSE [kind |-> "moved", row |-> 0, col |-> 0, bullet |-> [b EXCEPT !.x = new.x, !.y = new.y]]

\* new Bullet(pos, velocity, damage): the position is shifted by half the size.
NewBullet(px, py, vx, vy, damage) ==
  /\ phase = "ready"
  /\ ~bullet.live
  /\ bullet' = [live |-> TRUE, x |-> px - Px(bulletSize) \div 2, y |-> py - Px(bulletSize) \div 2,
                vx |-> vx, vy |-> vy, damage |-> damage, isDestroyed |-> FALSE,
                n |-> 0, delta |-> 0, hits |-> 0, cause |-> ""]
  /\ lastCall' = Call("Bullet", <<px, py, vx, vy, damage>>, <<>>)
  /\ ret' = <<>>
  /\ threw' = FALSE
  /\ UNCHANGED <<width, height, grid, phase, genRow, genCol, actor, search, scene>>

\* bullet.update(delta, map); n counts the calls, delta keeps the last one's,
\* hits counts the bullet's damageTile calls, cause tells which statement set
\* isDestroyed.
BulletUpdate(delta) ==
  /\ phase = "ready"
  /\ bullet.live
  /\ LET out == bulletOutcome(bullet, delta)
     IN  /\ bullet' = [out.bullet EXCEPT
                        !.n = bullet.n + 1, !.delta = delta,
                        !.hits = bullet.hits + (IF out.kind = "hit" THEN 1 ELSE 0),
                        !.cause = IF out.kind \in {"hit", "left"} THEN out.kind ELSE bullet.cause]
         /\ IF out.kind = "hit"
            THEN DamageTile(out.col, out.row, bullet.damage)
            ELSE /\ lastCall' = Call("Bullet.update", <<delta>>, <<>>)
                 /\ ret' = <<>>
                 /\ threw' = FALSE
                 /\ UNCHANGED <<width, height, grid, phase, genRow, genCol>>
  /\ UNCHANGED <<actor, search, scene>>

\* bullet.destroy()
BulletDestroy ==
  /\ phase = "ready"
  /\ bullet.live
  /\ bullet' = [bullet EXCEPT !.isDestroyed = TRUE,
                              !.cause = IF bullet.isDestroyed THEN bullet.cause ELSE "destroy"]
  /\ lastCall' = Call("Bullet.destroy", <<>>, <<>>)
  /\ ret' = <<>>
  /\ threw' = FALSE
  /\ UNCHANGED <<width, height, grid, phase, genRow, genCol, actor, search, scene>>

\* ------------------------------------------------------------ one frame
\* GameScene.update -> Player.update -> Entities.update, one statement group
\* per step; tick.pc names the step that runs next.  The weapon's cooldown and
\* heat are left open: whether Player.shoot creates a bullet is the input
\* `fire`, and one bullet is in flight at a time.
TickBegin(delta, moveDir, lookDir, coin) ==
  /\ phase = "ready"
  /\ actor.live
  /\ tick.pc = "idle"
  /\ tick' = [tick EXCEPT !.pc = "velocity", !.delta = delta, !.move = moveDir,
                          !.look = lookDir, !.coin = coin]
  /\ lastCall' = Call("GameScene.update", <<delta, moveDir, lookDir, coin>>, actor)
  /\ ret' = <<>>
  /\ threw' = FALSE
  /\ UNCHANGED <<width, height, grid, phase, genRow, genCol, actor, bullet, search, pickup, systems>>

\* limitPosition, the inputs, the target velocity, updateVelocityNonlinear
StepVelocity ==
  /\ tick.pc = "velocity"
  /\ LET limited == limitPosition(actor)
     IN  actor' = updateVelocityNonlinear(limited, targetVelocity(limited, tick.move),
                                          tick.move, tick.delta)
  /\ tick' = [tick EXCEPT !.pc = "heading"]
  /\ UNCHANGED <<width, height, grid, phase, genRow, genCol, lastCall, ret, threw,
                 bullet, search, pickup, systems>>

\* this.updateRotation(delta, lookDir)
StepHeading ==
  /\ tick.pc = "heading"
  /\ actor' = updateRotation(actor, tick.delta, tick.look, tick.coin)
  /\ tick' = [tick EXCEPT !.pc = "position"]
  /\ UNCHANGED <<width, height, grid, phase, genRow, genCol, lastCall, ret, threw,
                 bullet, search, pickup, systems>>

\* Mutant: the position step breaks the tile that blocks its x move.
StepPosition_breaking ==
  /\ tick.pc = "position"
  /\ actor' = [updatePosition(actor, tick.delta) EXCEPT !.n = actor.n + 1]
  /\ tick' = [tick EXCEPT !.pc = "shoot"]
  /\ LET newX == actor.x + displacement(actor.vx, tick.delta)
         col == Floor(newX + Px(actorSize), TileUnits)
         row == Floor(actor.y, TileUnits)
     IN  IF /\ Abs(actor.vx) * 10 > VelSub
            /\ isCollidingRect(newX, actor.y, Px(actorSize), Px(actorSize))
            /\ InRange(col, row)
         THEN /\ tiles' = [tiles EXCEPT ![row][col] = DEFAULT]
              /\ UNCHANGED <<tileHp, tileHighlight>>
         ELSE UNCHANGED grid
  /\ UNCHANGED <<width, height, phase, genRow, genCol, lastCall, ret, threw,
                 bullet, search, pickup, systems>>

\* this.updatePosition(delta, map), the end of Entities.update
StepPosition ==
  /\ tick.pc = "position"
  /\ actor' = [updatePosition(actor, tick.delta) EXCEPT !.n = actor.n + 1]
  /\ tick' = [tick EXCEPT !.pc = "shoot"]
  /\ UNCHANGED <<width, height, grid, phase, genRow, genCol, lastCall, ret, threw,
                 bullet, search, pickup, systems>>

\* Player.update: `if (lookDir.length() > 0) this.shoot(lookDir)`; a shot
\* creates a bullet at the player's centre, flying along lookDir.
StepShoot(fire) ==
  /\ tick.pc = "shoot"
  /\ IF (tick.look.x # 0 \/ tick.look.y # 0) /\ fire /\ ~bullet.live
     THEN bullet' = [live |-> TRUE,
                     x |-> actor.x + Px(actorSize) \div 2 - Px(bulletSize) \div 2,
                     y |-> actor.y + Px(actorSize) \div 2 - Px(bulletSize) \div 2,
                     vx |-> Quot(tick.look.x * bulletSpeed * VelSub, 10000),
                     vy |-> Quot(tick.look.y * bulletSpeed * VelSub, 10000),
                     damage |-> 10, isDestroyed |-> FALSE, n |-> 0, delta |-> 0,
                     hits |-> 0, cause |-> ""]
     ELSE bullet' = bullet
  /\ tick' = [tick EXCEPT !.pc = "bullets"]
  /\ UNCHANGED <<width, height, grid, phase, genRow, genCol, lastCall, ret, threw,
                 actor, search, pickup, systems>>

\* Mutant: the bullets are updated before the actor's position is resolved.
StepBullets_early ==
  /\ tick.pc \in {"position", "bullets"}
  /\ LET out == bulletOutcome(bullet, tick.delta)
     IN  /\ bullet' = IF ~bullet.live \/ out.bullet.isDestroyed THEN NoBullet
                      ELSE [out.bullet EXCEPT !.n = bullet.n + 1, !.delta = tick.delta]
         /\ IF bullet.live /\ out.kind = "hit"
            THEN DamageTile(out.col, out.row, bullet.damage)
            ELSE UNCHANGED <<width, height, grid, phase, genRow, genCol, lastCall, ret, threw>>
  /\ tick' = [tick EXCEPT !.pc = "rest"]
  /\ UNCHANGED <<actor, search, pickup, systems>>

\* this.bullets.forEach(bullet => bullet.update(delta, map)), then the filter
\* that drops the destroyed bullets.
StepBullets ==
  /\ tick.pc = "bullets"
  /\ LET out == bulletOutcome(bullet, tick.delta)
     IN  /\ bullet' = IF ~bullet.live \/ out.bullet.isDestroyed THEN NoBullet
                      ELSE [out.bullet EXCEPT !.n = bullet.n + 1, !.delta = tick.delta]
         /\ IF bullet.live /\ out.kind = "hit"
            THEN DamageTile(out.col, out.row, bullet.damage)
            ELSE UNCHANGED <<width, height, grid, phase, genRow, genCol, lastCall, ret, threw>>
  /\ tick' = [tick EXCEPT !.pc = "rest"]
  /\ UNCHANGED <<actor, search, pickup, systems>>

\* The rest of GameScene.update: particles, lights, modifiers, pickup items
\* and the camera, none of which holds the map or moves the player.
StepRest ==
  /\ tick.pc = "rest"
  /\ tick' = [tick EXCEPT !.pc = "idle", !.n = tick.n + 1]
  /\ UNCHANGED <<width, height, grid, phase, genRow, genCol, lastCall, ret, threw,
                 actor, bullet, search, pickup, systems>>

\* --------------------------------------------------------- spawn search
\* TileMap.getRandomWalkablePosition and GameScene.getSpawnPositionInArea: a
\* loop of at most MAX_ATTEMPTS samples, one sample per step.
MAX_ATTEMPTS == 1000

\* The sample of one iteration for the draws r1 and r2 (in 1/ProbScale): the
\* centred position in a random tile, or a random position in the area.
samplePosition(s, r1, r2) ==
  IF s.op = "getRandomWalkablePosition"
  THEN LET col == Floor(r1 * width, ProbScale)
           row == Floor(r2 * height, ProbScale)
       IN  <<col * TileUnits + (TileUnits - s.size) \div 2,
             row * TileUnits + (TileUnits - s.size) \div 2>>
  ELSE <<s.x + Quot(r1 * (s.width - s.size), ProbScale),
         s.y + Quot(r2 * (s.height - s.size), ProbScale)>>

\* Entry into either search: attempts = 0.
StartSearch(op, x, y, w, h, size) ==
  /\ phase = "ready"
  /\ search.status = "idle"
  /\ search' = [op |-> op, status |-> "running", attempts |-> 0, size |-> size,
                x |-> x, y |-> y, width |-> w, height |-> h]
  /\ lastCall' = Call(op, <<x, y, w, h, size>>, <<>>)
  /\ ret' = <<>>
  /\ threw' = FALSE
  /\ UNCHANGED <<width, height, grid, phase, genRow, genCol, actor, bullet, scene>>

\* Mutant: the sample is returned without asking isWalkableArea.
Attempt_unchecked(r1, r2) ==
  /\ search.status = "running"
  /\ search.attempts < MAX_ATTEMPTS
  /\ search' = [search EXCEPT !.status = "returned"]
  /\ ret' = samplePosition(search, r1, r2)
  /\ UNCHANGED <<width, height, grid, phase, genRow, genCol, lastCall, threw, actor, bullet, scene>>

\* One iteration of the loop: the sample is returned if isWalkableArea
\* accepts it, else attempts is incremented.
Attempt(r1, r2) ==
  /\ search.status = "running"
  /\ search.attempts < MAX_ATTEMPTS
  /\ LET pos == samplePosition(search, r1, r2)
     IN  IF isWalkableArea(pos[1], pos[2], search.size)
         THEN /\ search' = [search EXCEPT !.status = "returned"]
              /\ ret' = pos
         ELSE /\ search' = [search EXCEPT !.attempts = search.attempts + 1]
              /\ ret' = ret
  /\ UNCHANGED <<width, height, grid, phase, genRow, genCol, lastCall, threw, actor, bullet, scene>>

\* The loop condition fails: throw new Error(...).
Exhausted ==
  /\ search.status = "running"
  /\ ~(search.attempts < MAX_ATTEMPTS)
  /\ search' = [search EXCEPT !.status = "threw"]
  /\ threw' = TRUE
  /\ UNCHANGED <<width, height, grid, phase, genRow, genCol, lastCall, ret, actor, bullet, scene>>

\* --------------------------------------------------------------- weapon
\* Player (src/src/objects/Player.ts).  Timers are in ms; a frame of `delta`
\* sixteenths of a second lasts Ms(delta).
Ms(delta) == (delta * 1000) \div FrameHz


\* Mutant: the overheat countdown keeps the time it overshot by.
cooled_carry(w, dt) ==
  IF w.isOverheated
  THEN IF w.overheatCooldownRemaining - dt <= 0
       THEN [w EXCEPT !.isOverheated = FALSE,
                      !.shootingTimeRemaining = maxShootingTime,
                      !.overheatCooldownRemaining =
                         maxOverheatCooldownTime + (w.overheatCooldownRemaining - dt)]
       ELSE [w EXCEPT !.overheatCooldownRemaining = w.overheatCooldownRemaining - dt]
  ELSE [w EXCEPT
          !.fireCooldown = IF w.fireCooldown > 0 THEN w.fireCooldown - dt ELSE w.fireCooldown,
          !.shootingTimeRemaining =
             IF ~w.isShooting /\ w.shootingTimeRemaining < maxShootingTime
             THEN Min(maxShootingTime, w.shootingTimeRemaining + (dt * maxShootingTime) \div 2000)
             ELSE w.shootingTimeRemaining,
          !.sinceShot = Min(fireRate, w.sinceShot + dt)]

\* Player.update, the cooldown statements: the overheat countdown, or the
\* fire cooldown and the recovery of shooting time (half of maxShootingTime
\* per second) while the firing flag is off.
cooled(w, dt) ==
  IF w.isOverheated
  THEN IF w.overheatCooldownRemaining - dt <= 0
       THEN [w EXCEPT !.isOverheated = FALSE,
                      !.shootingTimeRemaining = maxShootingTime,
                      !.overheatCooldownRemaining = maxOverheatCooldownTime]
       ELSE [w EXCEPT !.overheatCooldownRemaining = w.overheatCooldownRemaining - dt]
  ELSE [w EXCEPT
          !.fireCooldown = IF w.fireCooldown > 0 THEN w.fireCooldown - dt ELSE w.fireCooldown,
          !.shootingTimeRemaining =
             IF ~w.isShooting /\ w.shootingTimeRemaining < maxShootingTime
             THEN Min(maxShootingTime, w.shootingTimeRemaining + (dt * maxShootingTime) \div 2000)
             ELSE w.shootingTimeRemaining,
          !.sinceShot = Min(fireRate, w.sinceShot + dt)]

\* startOverheat
startOverheat(w) ==
  [w EXCEPT !.isOverheated = TRUE, !.shootingTimeRemaining = 0, !.fireCooldown = 0]

\* Mutant: a shot is created whatever the fire cooldown.
shoot_rapid(w) ==
  IF w.isOverheated THEN w
  ELSE IF w.shootingTimeRemaining <= 0 THEN startOverheat(w)
  ELSE [w EXCEPT !.fireCooldown = fireRate,
                 !.shootingTimeRemaining = w.shootingTimeRemaining - fireRate,
                 !.fired = w.fired + 1, !.sinceShot = 0, !.sinceAny = 0,
                 !.gap = w.sinceShot,
                 !.label = "shooting", !.isShooting = TRUE]

\* Player.shoot(inputDir) for a direction that is not zero.
shoot(w) ==
  IF w.isOverheated THEN w
  ELSE IF w.shootingTimeRemaining <= 0 THEN startOverheat(w)
  ELSE IF w.fireCooldown > 0 THEN w
  ELSE [w EXCEPT !.fireCooldown = fireRate,
                 !.shootingTimeRemaining = w.shootingTimeRemaining - fireRate,
                 !.fired = w.fired + 1, !.sinceShot = 0, !.sinceAny = 0,
                 !.gap = w.sinceShot,
                 !.label = "shooting", !.isShooting = TRUE]

\* Mutant: a moving player is labelled "moving" also while it fires.
stateName_movingFirst(w, a) ==
  IF Length(a.vx, a.vy) * 10 > VelSub THEN "moving"
  ELSE IF w.isShooting THEN "shooting"
  ELSE "idle"

\* The state that Player.update asks the state machine for.
stateName(w, a) ==
  IF w.isShooting THEN "shooting"
  ELSE IF Length(a.vx, a.vy) * 10 > VelSub THEN "moving"
  ELSE "idle"

\* The weapon after Player.update: getLookDirection (called by super.update)
\* sets the firing flag to whether an arrow key is down; then the cooldown
\* statements, the shot when the look direction is not zero, and the label.
fired(w, a, dt, lookDir, anyArrow) ==
  LET flagged == [w EXCEPT !.isShooting = anyArrow, !.fired = 0,
                           !.sinceAny = Min(fireRate, w.sinceAny + dt)]
      cool == cooled(flagged, dt)
      shot == IF lookDir.x # 0 \/ lookDir.y # 0 THEN shoot(cool) ELSE cool
  IN  [shot EXCEPT !.label = stateName(shot, a), !.n = Min(w.n + 1, MaxTicks)]

\* player.update(delta, input, map) without the flight of its bullets (that
\* is BulletUpdate): the actor's update, then the weapon's.
PlayerUpdate(delta, moveDir, lookDir, anyArrow, coin) ==
  /\ phase = "ready"
  /\ actor.live
  /\ actor' = updated(actor, delta, moveDir, lookDir, coin)
  /\ weapon' = fired(weapon, actor', Ms(delta), lookDir, anyArrow)
  /\ lastCall' = Call("Player.update", <<delta, moveDir, lookDir, anyArrow, coin>>, actor)
  /\ ret' = <<>>
  /\ threw' = FALSE
  /\ UNCHANGED <<width, height, grid, phase, genRow, genCol, bullet, search, tick, pickup,
                 sceneManager, particleSystem, stateMachine>>

\* ----------------------------------------------------------- scenes
\* A hook call: the callback and the scene it is called on.
Hook(h, s) == [hook |-> h, scene |-> s]

\* SceneManager.changeScene(scene, duration), duration in ms.
changeScene(m, next, duration) ==
  LET asked == [m EXCEPT !.requests = Min(m.requests + 1, MaxRequests), !.since = 0]
  IN  IF m.currentScene = NoScene
      THEN [asked EXCEPT !.currentScene = next,
                         !.entered = m.entered \cup {next},
                         !.hooks = <<Hook("onEnter", next)>>]
      ELSE [asked EXCEPT !.nextScene = next,
                         !.transitionDuration = duration,
                         !.transitionTime = 0,
                         !.isTransitioning = TRUE,
                         !.hooks = <<>>]

\* A transition that forgets to clear its flag.
sceneUpdate_stillPending(m, dt) ==
  LET pending == m.isTransitioning /\ m.currentScene # NoScene /\ m.nextScene # NoScene
      done == pending /\ m.transitionTime + dt >= m.transitionDuration
      cur == IF done THEN m.nextScene ELSE m.currentScene
  IN  [m EXCEPT !.transitionTime = IF pending THEN m.transitionTime + dt ELSE m.transitionTime,
                !.currentScene = cur,
                !.entered = IF done THEN m.entered \cup {cur} ELSE m.entered,
                !.since = Min(m.since + dt, m.transitionDuration),
                !.hooks = (IF done THEN <<Hook("onExit", m.currentScene), Hook("onEnter", cur)>>
                                   ELSE <<>>)
                          \o (IF cur # NoScene THEN <<Hook("update", cur)>> ELSE <<>>)
                          \o (IF m.nextScene # NoScene THEN <<Hook("update", m.nextScene)>> ELSE <<>>)]

\* SceneManager.update(delta, input), dt in ms: the transition's clock and its
\* completion, then the update of the current scene and of the next one.
sceneUpdate(m, dt) ==
  LET pending == m.isTransitioning /\ m.currentScene # NoScene /\ m.nextScene # NoScene
      time == IF pending THEN m.transitionTime + dt ELSE m.transitionTime
      done == pending /\ time >= m.transitionDuration
      cur == IF done THEN m.nextScene ELSE m.currentScene
      nxt == IF done THEN NoScene ELSE m.nextScene
  IN  [m EXCEPT !.transitionTime = time,
                !.currentScene = cur,
                !.nextScene = nxt,
                !.isTransitioning = IF done THEN FALSE ELSE m.isTransitioning,
                !.entered = IF done THEN m.entered \cup {cur} ELSE m.entered,
                !.since = Min(m.since + dt, m.transitionDuration),
                !.hooks = (IF done THEN <<Hook("onExit", m.currentScene), Hook("onEnter", cur)>>
                                   ELSE <<>>)
                          \o (IF cur # NoScene THEN <<Hook("update", cur)>> ELSE <<>>)
                          \o (IF nxt # NoScene THEN <<Hook("update", nxt)>> ELSE <<>>)]

SceneCall(op, args, after) ==
  /\ sceneManager' = after
  /\ lastCall' = Call(op, args, sceneManager)
  /\ ret' = <<>>
  /\ threw' = FALSE
  /\ UNCHANGED <<width, height, grid, phase, genRow, genCol, actor, bullet, search, tick, pickup,
                 weapon, particleSystem, stateMachine>>

ChangeScene(next, duration) ==
  SceneCall("SceneManager.changeScene", <<next, duration>>, changeScene(sceneManager, next, duration))

SceneManagerUpdate(delta) ==
  SceneCall("SceneManager.update", <<delta>>, sceneUpdate(sceneManager, Ms(delta)))

\* ------------------------------------------------------ state machine
\* A callback invoked on the owner: which one, and the state it belongs to.
Callback(h, state) == [hook |-> h, state |-> state.name]
\* state.onExit?.(owner) and state.onEnter?.(owner); nothing for undefined.
invoke(h, state) == IF h \in state.callbacks THEN <<Callback(h, state)>> ELSE <<>>

\* StateMachine.addState(state): Map.set under the state's name.
addState(sm, state) ==
  [sm EXCEPT !.states = [n \in DOMAIN sm.states \cup {state.name} |->
                           IF n = state.name THEN state ELSE sm.states[n]],
             !.hooks = <<>>]

\* A change that does not look at the current state's name.
changeState_always(sm, name) ==
  LET new == IF name \in DOMAIN sm.states THEN sm.states[name] ELSE NoState
  IN  [sm EXCEPT !.currentState = new,
                 !.hooks = invoke("onExit", sm.currentState) \o invoke("onEnter", new)]

\* StateMachine.changeState(name).
changeState(sm, name) ==
  IF sm.currentState # NoState /\ sm.currentState.name = name
  THEN [sm EXCEPT !.hooks = <<>>]
  ELSE LET new == IF name \in DOMAIN sm.states THEN sm.states[name] ELSE NoState
       IN  [sm EXCEPT !.currentState = new,
                      !.hooks = invoke("onExit", sm.currentState) \o invoke("onEnter", new)]

\* StateMachine.getStateName(): the empty name for undefined.
getStateName(sm) == sm.currentState.name

StateCall(op, args, after) ==
  /\ stateMachine' = after
  /\ lastCall' = Call(op, args, stateMachine)
  /\ ret' = <<>>
  /\ threw' = FALSE
  /\ UNCHANGED <<width, height, grid, phase, genRow, genCol, actor, bullet, search, tick, pickup,
                 weapon, sceneManager, particleSystem>>

AddState(state) == StateCall("StateMachine.addState", <<state>>, addState(stateMachine, state))
ChangeState(name) == StateCall("StateMachine.changeState", <<name>>, changeState(stateMachine, name))

\* -------------------------------------------------------- particles
\* A particle's life, in ms: life * (0.8 + Math.random() * 0.4), the draw in
\* 1/ProbScale.
particleLife(life, draw) == (life * (8 * ProbScale + 4 * draw)) \div (10 * ProbScale)

\* Particle.reset(pos, velocity, size, life, color): the particle is as a new
\* one, and keeps its identity.
reset(id, life) == [id |-> id, life |-> life]

\* The particles that createExplosion can add.
availableSlots(ps) == Max(0, maxParticles - Len(ps.particles))
\* The call of reset in createExplosion throws.
resetThrows(ps, count, resets) ==
  ~resets /\ Min(count, availableSlots(ps)) > 0 /\ Len(ps.particlePool) > 0

\* An explosion that counts the particles it is asked for only.
createExplosion_unlimited(ps, count, life, draws, resets) ==
  [ps EXCEPT !.particles = ps.particles
                 \o [i \in 1 .. count |-> [id |-> ps.made + i, life |-> particleLife(life, draws[1])]],
             !.made = ps.made + count,
             !.n = ps.n + 1]

\* ParticleSystem.createExplosion(pos, count, speed, size, life, colors), life
\* in ms: draws are the two values that Math.random() takes for the lives, in
\* turn; resets tells whether Particle.reset returns.
createExplosion(ps, count, life, draws, resets) ==
  LET actualCount == Min(count, availableSlots(ps))
      pooled == Len(ps.particlePool)
      reused == Min(actualCount, pooled)
      lifeOf(i) == particleLife(life, draws[2 - (i % 2)])
  IN  IF resetThrows(ps, count, resets)
      THEN [ps EXCEPT !.particlePool = SubSeq(ps.particlePool, 1, pooled - 1),
                      !.n = ps.n + 1]
      ELSE [ps EXCEPT !.particles = ps.particles
                          \o [i \in 1 .. actualCount |->
                                IF i <= reused
                                THEN reset(ps.particlePool[pooled - i + 1], lifeOf(i))
                                ELSE [id |-> ps.made + (i - reused), life |-> lifeOf(i)]],
                      !.particlePool = SubSeq(ps.particlePool, 1, pooled - reused),
                      !.made = ps.made + (actualCount - reused),
                      !.n = ps.n + 1]

\* Particle.isAlive() after Particle.update(delta).
isAlive(p) == p.life > 0
isDead(p) == ~isAlive(p)

\* ParticleSystem.update(delta), dt in ms: every particle ages; the dead ones
\* leave the list, and go to the pool while it holds less than maxPooled.
particlesUpdate(ps, dt) ==
  LET aged == [i \in 1 .. Len(ps.particles) |->
                 [ps.particles[i] EXCEPT !.life = ps.particles[i].life - dt]]
      dead == SelectSeq(aged, isDead)
      room == Max(0, maxPooled - Len(ps.particlePool))
  IN  [ps EXCEPT !.particles = SelectSeq(aged, isAlive),
                 !.particlePool = ps.particlePool
                     \o [i \in 1 .. Min(room, Len(dead)) |-> dead[i].id],
                 !.n = ps.n + 1]

ParticleCall(op, args, after, thrown) ==
  /\ phase = "ready"
  /\ particleSystem.n < MaxParticleOps
  /\ particleSystem' = after
  /\ lastCall' = Call(op, args, particleSystem)
  /\ ret' = <<>>
  /\ threw' = thrown
  /\ UNCHANGED <<width, height, grid, phase, genRow, genCol, actor, bullet, search, tick, pickup,
                 weapon, sceneManager, stateMachine>>

CreateExplosion(count, life, draws, resets) ==
  ParticleCall("ParticleSystem.createExplosion", <<count, life, draws, resets>>,
               createExplosion(particleSystem, count, life, draws, resets),
               resetThrows(particleSystem, count, resets))

ParticleSystemUpdate(delta) ==
  ParticleCall("ParticleSystem.update", <<delta>>, particlesUpdate(particleSystem, Ms(delta)), FALSE)

\* ---------------------------------------------------------- pickup spawn
\* GameScene.spawnPickupItem: a loop of at most maxAttempts calls of
\* getRandomWalkablePosition, each inside its own try/catch.
maxAttempts == 100
pickupSize == 40
minDistanceFromPlayer == 200

\* What one call of getRandomWalkablePosition(size) can do: return the centred
\* position of a tile that isWalkableArea accepts, or throw, when a tile exists
\* that it rejects (all MAX_ATTEMPTS samples may fall on such tiles).
searchOutcomes(size) ==
  LET at(col, row) == <<col * TileUnits + (TileUnits - size) \div 2,
                        row * TileUnits + (TileUnits - size) \div 2>>
      fits(col, row) == isWalkableArea(at(col, row)[1], at(col, row)[2], size)
  IN  {<<"returned", at(col, row)>> : <<col, row>> \in {cr \in Cols \X Rows : fits(cr[1], cr[2])}}
        \cup (IF \E col \in Cols, row \in Rows : ~fits(col, row) THEN {<<"threw", <<>> >>} ELSE {})

\* Entry: `let attempts = 0; let position = null`.
PickupBegin ==
  /\ phase = "ready"
  /\ actor.live
  /\ pickup.status = "idle"
  /\ pickup' = [status |-> "looping", attempts |-> 0, caught |-> 0]
  /\ lastCall' = Call("spawnPickupItem", <<>>, <<>>)
  /\ ret' = <<>>
  /\ threw' = FALSE
  /\ UNCHANGED <<width, height, grid, phase, genRow, genCol, actor, bullet, search, tick, systems>>

\* One iteration of the loop: the search is called; a position far enough
\* from the player's centre ends the loop; a thrown error is caught and
\* logged; attempts is incremented and the loop goes on.
PickupAttempt(outcome) ==
  /\ pickup.status = "looping"
  /\ pickup.attempts < maxAttempts
  /\ lastCall' = Call("getRandomWalkablePosition", <<Px(pickupSize)>>, <<>>)
  /\ IF outcome[1] = "threw"
     THEN /\ pickup' = [pickup EXCEPT !.attempts = pickup.attempts + 1,
                                      !.caught = pickup.caught + 1]
          /\ ret' = <<>>
          /\ threw' = FALSE
     ELSE LET dx == outcome[2][1] + Px(pickupSize) \div 2 - (actor.x + Px(actorSize) \div 2)
              dy == outcome[2][2] + Px(pickupSize) \div 2 - (actor.y + Px(actorSize) \div 2)
          IN  /\ pickup' = IF Length(dx, dy) >= Px(minDistanceFromPlayer)
                           THEN [pickup EXCEPT !.status = "placed"]
                           ELSE [pickup EXCEPT !.attempts = pickup.attempts + 1]
              /\ ret' = outcome[2]
              /\ threw' = FALSE
  /\ UNCHANGED <<width, height, grid, phase, genRow, genCol, actor, bullet, search, tick, systems>>

\* The loop ends without a position: no item is created, nothing is thrown.
PickupEnd ==
  /\ pickup.status = "looping"
  /\ ~(pickup.attempts < maxAttempts)
  /\ pickup' = [pickup EXCEPT !.status = "dropped"]
  /\ lastCall' = Call("spawnPickupItem", <<>>, <<>>)
  /\ ret' = <<>>
  /\ threw' = FALSE
  /\ UNCHANGED <<width, height, grid, phase, genRow, genCol, actor, bullet, search, tick, systems>>

\* ------------------------------------------------------------ the inputs
\* Damage amounts: `amount` is any number; the one caller in the repository
\* passes 10.
Amounts == {-40, 40, 100}
\* Indices one cell outside the grid on each side, and every cell inside.
ColArgs == -1 .. width
RowArgs == -1 .. height
\* Camera positions and frame times for draw.
Cameras == {<<0, 0>>, <<Px(60), 0>>, <<0, Px(60)>>}
CanvasSize == Px(40)
Deltas == {highlightDuration, highlightDuration + 50}
\* Query positions along x: 5 px left of the grid, aligned with the first
\* column, a pixel and a fraction into it, 45 px into it, and the last two
\* again in the last column; the same along y.  Query sizes: a bullet's and
\* an actor's.
XArgs == {-Px(5), 0, Sub + 1, Px(45),
          (width - 1) * TileUnits + Sub + 1, (width - 1) * TileUnits + Px(45)}
YArgs == {-Px(5), 0, Sub + 1, Px(45),
          (height - 1) * TileUnits + Sub + 1, (height - 1) * TileUnits + Px(45)}
Sizes == {Px(10), Px(49)}

Construct ==
  /\ \E r1 \in RandomDraws, r2 \in RandomDraws, r3 \in RandomDraws : GenCell(r1, r2, r3)
  /\ UNCHANGED entities

Damage ==
  \E col \in ColArgs, row \in RowArgs, amount \in Amounts :
    /\ (InRange(col, row) /\ phase = "ready") => tileHp[row][col] - amount <= HpCap
    /\ DamageTile(col, row, amount)
    /\ UNCHANGED entities

Break ==
  /\ \E col \in ColArgs, row \in RowArgs : BreakTile(col, row)
  /\ UNCHANGED entities

Render ==
  /\ \E camera \in Cameras, delta \in Deltas :
       Draw(camera[1], camera[2], CanvasSize, CanvasSize, delta)
  /\ UNCHANGED entities

QueryWalkable ==
  /\ \E x \in XArgs, y \in YArgs, size \in Sizes : CallIsWalkableArea(x, y, size)
  /\ UNCHANGED entities

QueryColliding ==
  /\ \E x \in XArgs, y \in YArgs, size \in Sizes : CallIsCollidingRect(x, y, size, size)
  /\ UNCHANGED entities

QueryTileAt ==
  /\ \E x \in XArgs, y \in YArgs, size \in Sizes : CallGetTileAtRect(x, y, size)
  /\ UNCHANGED entities

QuerySpeedFactor ==
  /\ \E x \in XArgs, y \in YArgs : CallGetSpeedFactor(x, y)
  /\ UNCHANGED entities

\* Normalised directions, in 1/10000.
Zero == [x |-> 0, y |-> 0]
East == [x |-> 10000, y |-> 0]
West == [x |-> -10000, y |-> 0]
North == [x |-> 0, y |-> -10000]
SouthWest == [x |-> -7071, y |-> 7071]
SouthEast == [x |-> 7071, y |-> 7071]
NorthEast == [x |-> 7071, y |-> -7071]
\* What the keys held during a frame ask for: <<move direction, look direction>>.
Intents == {<<Zero, Zero>>, <<West, Zero>>, <<SouthWest, Zero>>, <<SouthEast, Zero>>,
            <<NorthEast, Zero>>, <<Zero, East>>, <<Zero, North>>}
\* Frame lengths: 1/16 s and 1/4 s.
FrameDeltas == {1, 4}
\* Where an actor is created: a sub-pixel inside the first tile, and in the
\* second column below the last row an actor fits in.
NearOrigin == <<1, 1>>
BelowGrid == <<Px(tileSize) + 1, Px(height * tileSize - actorSize + 9)>>
\* The actors created: <<position, rotation strategy>>.
Actors == {<<NearOrigin, "auto">>, <<BelowGrid, "auto">>, <<NearOrigin, "cw">>,
           <<NearOrigin, "ccw">>}

Create ==
  \E a \in Actors : NewActor(a[1][1], a[1][2], a[2])

Update ==
  \E delta \in FrameDeltas, intent \in Intents, coin \in BOOLEAN :
    /\ actor.n < MaxTicks
    /\ ActorUpdate(delta, intent[1], intent[2], coin)

\* Rotations of a frame: of 1/16 s, and of 0.2496 s (just short of pi).
Turns == {(rotationSpeed * Pi) \div 16, (rotationSpeed * Pi * 2496) \div 10000}

Turn ==
  \E maxRotation \in Turns, look \in {East, North}, coin \in BOOLEAN :
    /\ actor.n < MaxTicks
    /\ ActorTurn(maxRotation, look, coin)

\* What the keys ask for during the frames of a scene.
TickIntents == {<<Zero, Zero>>, <<SouthEast, Zero>>, <<Zero, East>>, <<SouthEast, East>>}

Frame ==
  \E intent \in TickIntents, coin \in BOOLEAN :
    /\ tick.n < MaxTicks
    /\ TickBegin(1, intent[1], intent[2], coin)

\* Frames of a player who stands still and may look east or south-east:
\* counted up to MaxTicks, they go on while a bullet is in flight.
Volley ==
  \E look \in {Zero, East, SouthEast} :
    /\ tick.n < MaxTicks \/ (bullet.live /\ bullet.n < MaxBulletTicks)
    /\ TickBegin(1, Zero, look, FALSE)

Trigger == \E fire \in BOOLEAN : StepShoot(fire)

\* Between two frames: the scene is drawn, and a tile may be broken.
Redraw ==
  /\ tick.pc = "idle"
  /\ Draw(0, 0, CanvasSize, CanvasSize, highlightDuration \div 2)
  /\ UNCHANGED entities

Shatter ==
  /\ tick.pc = "idle"
  /\ \E col \in Cols, row \in Rows : BreakTile(col, row)
  /\ UNCHANGED entities

\* The arrow keys held during a frame: none, the right one, or the left and
\* the right one together (no look direction, yet a key is down).
Keys == {[look |-> Zero, any |-> FALSE], [look |-> East, any |-> TRUE],
         [look |-> Zero, any |-> TRUE]}

\* A player who stands still: frames of 0 and 1/16 s.
Hold ==
  \E delta \in {0, 1}, keys \in Keys :
    PlayerUpdate(delta, Zero, keys.look, keys.any, FALSE)

\* A player who moves: MaxTicks frames.
Play ==
  \E delta \in FrameDeltas, moveDir \in {Zero, East, SouthEast}, keys \in Keys :
    /\ weapon.n < MaxTicks
    /\ PlayerUpdate(delta, moveDir, keys.look, keys.any, FALSE)

Seek == \E outcome \in searchOutcomes(Px(pickupSize)) : PickupAttempt(outcome)

\* The map's life: construction, then damage, breaking and drawing.
Init == Construction(MaxCells) /\ NoEntities
Next == Construct \/ Damage \/ Break \/ Render
Spec == Init /\ [][Next]_vars

\* A map that is constructed and then only queried.
InitQuery == Construction(MaxQueryCells) /\ NoEntities
NextQuery == Construct \/ QueryWalkable \/ QueryColliding \/ QueryTileAt \/ QuerySpeedFactor
SpecQuery == InitQuery /\ [][NextQuery]_vars

\* The bullets shot: from the centre of a player standing at (20.5, 10.5) or
\* at (25.5, 50.5), along a look direction, with the default damage or with a
\* tile's full durability.
Muzzles == {<<Px(45), Px(35)>>, <<Px(50), Px(75)>>}
Aims == {East, West, North, SouthEast, SouthWest}
Damages == {10, 100}

Shoot ==
  \E muzzle \in Muzzles, aim \in Aims, damage \in Damages :
    NewBullet(muzzle[1], muzzle[2], Quot(aim.x * bulletSpeed * VelSub, 10000),
              Quot(aim.y * bulletSpeed * VelSub, 10000), damage)

\* A bullet's frames: those of an actor, and one of 1/8 s.
Fly ==
  \E delta \in FrameDeltas \cup {2} :
    /\ bullet.n < MaxBulletTicks
    /\ BulletUpdate(delta)

Destroy == BulletDestroy

\* Sizes searched for: a pickup item, the player, a body wider than a tile.
SpawnSizes == {Px(40), Px(49), Px(60)}
\* Math.random() in the searches: first, middle and last tile or position.
SpawnDraws == {0, 40000, 50000, 99999}

SearchTile ==
  \E size \in SpawnSizes : StartSearch("getRandomWalkablePosition", 0, 0, 0, 0, size)

\* The area searched: the whole map, or the camera's 100 x 100 dead zone.
SearchArea ==
  \E size \in SpawnSizes, area \in {<<0, 0, width * TileUnits, height * TileUnits>>,
                                   <<Px(25), Px(25), Px(100), Px(100)>>} :
    StartSearch("getSpawnPositionInArea", area[1], area[2], area[3], area[4], size)

Sample ==
  \E r1 \in SpawnDraws, r2 \in SpawnDraws : Attempt(r1, r2)

GiveUp == Exhausted

\* A constructed map with the given terrain layout.
Constructed(w, h, layout) ==
  /\ width = w
  /\ height = h
  /\ tiles = layout
  /\ tileHp = [row \in 0 .. (h - 1) |-> [col \in 0 .. (w - 1) |-> InitialHp(layout[row][col])]]
  /\ tileHighlight = [row \in 0 .. (h - 1) |-> [col \in 0 .. (w - 1) |-> 0]]
  /\ phase = "ready"
  /\ genRow = h
  /\ genCol = 0
  /\ lastCall = Call("constructor", <<w, h>>, <<>>)
  /\ ret = <<>>
  /\ threw = FALSE

\* The maps an actor moves on: MaxWidth x MaxHeight, open ground with at most
\* one wall, in the first or in the second cell of the diagonal.
ActorLayouts ==
  LET open == [row \in 0 .. (MaxHeight - 1) |-> [col \in 0 .. (MaxWidth - 1) |-> DEFAULT]]
  IN  {open} \cup {[open EXCEPT ![rc[1]][rc[2]] = WALL] :
                     rc \in {<<0, 0>>, <<1, 1>>} \cap
                            ((0 .. (MaxHeight - 1)) \X (0 .. (MaxWidth - 1)))}

\* An actor on a constructed map.
InitActor ==
  /\ \E layout \in ActorLayouts : Constructed(MaxWidth, MaxHeight, layout)
  /\ NoEntities
NextActor == Create \/ Update
SpecActor == InitActor /\ [][NextActor]_vars

\* The maps a bullet flies over: MaxWidth x MaxHeight, open ground with at
\* most one mineral or wall.
BulletLayouts ==
  LET open == [row \in 0 .. (MaxHeight - 1) |-> [col \in 0 .. (MaxWidth - 1) |-> DEFAULT]]
  IN  {open} \cup {[open EXCEPT ![rc[1]][rc[2]] = t] :
                     rc \in (0 .. (MaxHeight - 1)) \X (0 .. (MaxWidth - 1)),
                     t \in {WALL, MINERAL}}

\* Actors in the middle of play, as <<x, y, velocity.x, velocity.y, heading>>:
\* at rest near the origin; there and 0.006 rad off the x axis; there and
\* drifting east at 92.5 px/s; at rest in the second column.
Moving ==
  {<<1, 1, 0, 0, 0>>, <<1, 1, 0, 0, 60>>, <<1, 1, 925, 0, 0>>,
   <<Px(tileSize) + 1, 1, 0, 0, 0>>}

\* One step of the kinematics applied to an actor in the middle of play.
InitStep ==
  /\ \E layout \in ActorLayouts : Constructed(MaxWidth, MaxHeight, layout)
  /\ \E m \in Moving :
       actor = [live |-> TRUE, x |-> m[1], y |-> m[2], vx |-> m[3], vy |-> m[4],
                currentRotation |-> m[5], rotationStrategy |-> "auto", n |-> 0]
  /\ bullet = NoBullet /\ search = NoSearch /\ tick = NoTick /\ pickup = NoPickup /\ NoSystems
NextStep == Update \/ Turn
SpecStep == InitStep /\ [][NextStep]_vars

\* A row of three tiles with a wall in the middle.
Corridor == [row \in 0 .. 0 |-> [col \in 0 .. 2 |-> IF col = 1 THEN WALL ELSE DEFAULT]]

\* The frames of a scene: a player created at rest on a map with a mineral
\* east of it or a wall south-east of it.
TickLayouts ==
  LET open == [row \in 0 .. (MaxHeight - 1) |-> [col \in 0 .. (MaxWidth - 1) |-> DEFAULT]]
  IN  {[open EXCEPT ![0][1] = MINERAL], [open EXCEPT ![1][1] = WALL]}
InitTick ==
  /\ \E layout \in TickLayouts : Constructed(MaxWidth, MaxHeight, layout)
  /\ actor = [live |-> TRUE, x |-> 1, y |-> 1, vx |-> 0, vy |-> 0,
              currentRotation |-> 0, rotationStrategy |-> "auto", n |-> 0]
  /\ bullet = NoBullet /\ search = NoSearch /\ tick = NoTick /\ pickup = NoPickup /\ NoSystems
NextTick ==
  \/ Frame \/ StepVelocity \/ StepHeading \/ StepPosition \/ Trigger \/ StepBullets \/ StepRest
  \/ Redraw \/ Shatter
SpecTick == InitTick /\ [][NextTick]_vars

\* The game loop runs a frame after every frame, and a frame runs to its end.
NextLoop ==
  Volley \/ StepVelocity \/ StepHeading \/ StepPosition \/ Trigger \/ StepBullets \/ StepRest
SpecLoop == InitTick /\ [][NextLoop]_vars /\ WF_vars(NextLoop)

\* A player created at rest in the first tile of an open map.
InitPlayer ==
  /\ Constructed(MaxWidth, MaxHeight,
                 [row \in 0 .. (MaxHeight - 1) |-> [col \in 0 .. (MaxWidth - 1) |-> DEFAULT]])
  /\ actor = [NoActor EXCEPT !.live = TRUE, !.x = 1, !.y = 1]
  /\ bullet = NoBullet /\ search = NoSearch /\ tick = NoTick /\ pickup = NoPickup /\ NoSystems
NextWeapon == Hold
SpecWeapon == InitPlayer /\ [][NextWeapon]_vars
NextPlayer == Play
SpecPlayer == InitPlayer /\ [][NextPlayer]_vars

\* Scenes are requested at any time, MaxRequests times; the game loop goes on
\* updating the manager, with frames that last.
Scenes == {1, 2, 3}
Switch ==
  \E next \in Scenes, duration \in {0, defaultDuration} :
    /\ sceneManager.requests < MaxRequests
    /\ ChangeScene(next, duration)
Animate == \E delta \in FrameDeltas : SceneManagerUpdate(delta)
NextScenes == Switch \/ Animate
SpecScenes == InitPlayer /\ [][NextScenes]_vars /\ WF_vars(Animate)

\* Explosions of the default size and large ones, with the default life of
\* 0.3 s scaled by the least draw, or by the least and the greatest in turn.
Explode ==
  \E count \in {10, 600}, draws \in {<<0, 0>>, <<0, ProbScale - 1>>}, resets \in BOOLEAN :
    /\ resets \/ Len(particleSystem.particlePool) > 0
    /\ CreateExplosion(count, 300, draws, resets)
Fade == \E delta \in FrameDeltas : ParticleSystemUpdate(delta)
NextParticles == Explode \/ Fade
SpecParticles == InitPlayer /\ [][NextParticles]_vars

\* States with no callback, with onEnter only and with both are registered
\* under the Player's three names, again too; any of the names is asked for.
StateNames == {"idle", "moving", "shooting"}
Register ==
  \E name \in StateNames, callbacks \in {{}, {"onEnter"}, {"onEnter", "onExit"}} :
    AddState([name |-> name, callbacks |-> callbacks])
Transition == \E name \in StateNames : ChangeState(name)
NextStates == Register \/ Transition
SpecStates == InitPlayer /\ [][NextStates]_vars

\* A bullet over a constructed map.
InitBullet ==
  /\ \/ \E layout \in BulletLayouts : Constructed(MaxWidth, MaxHeight, layout)
     \/ Constructed(3, 1, Corridor)
  /\ NoEntities
NextBullet == Shoot \/ Fly \/ Destroy
SpecBullet == InitBullet /\ [][NextBullet]_vars

\* The 3x3 map that is all wall except its centre cell.
Ring == [row \in 0 .. 2 |-> [col \in 0 .. 2 |-> IF row = 1 /\ col = 1 THEN DEFAULT ELSE WALL]]

\* A spawn search on the ring, or on open ground of MaxWidth x MaxHeight.
InitSpawn ==
  /\ \/ Constructed(3, 3, Ring)
     \/ Constructed(MaxWidth, MaxHeight,
                    [row \in 0 .. (MaxHeight - 1) |-> [col \in 0 .. (MaxWidth - 1) |-> DEFAULT]])
  /\ NoEntities
NextSpawn == SearchTile \/ SearchArea \/ Sample \/ GiveUp
SpecSpawn == InitSpawn /\ [][NextSpawn]_vars

\* A row of five open tiles, 250 px long.
Strip == [row \in 0 .. 0 |-> [col \in 0 .. 4 |-> DEFAULT]]

\* A pickup spawn request in a scene whose player stands in the centre cell of
\* the ring, or in the first tile of the strip.
InitPickup ==
  /\ \/ /\ Constructed(3, 3, Ring)
        /\ actor = [NoActor EXCEPT !.live = TRUE, !.x = TileUnits + 1, !.y = TileUnits + 1]
     \/ /\ Constructed(5, 1, Strip)
        /\ actor = [NoActor EXCEPT !.live = TRUE, !.x = 1, !.y = 1]
  /\ bullet = NoBullet /\ search = NoSearch /\ tick = NoTick /\ pickup = NoPickup /\ NoSystems
NextPickup == PickupBegin \/ Seek \/ PickupEnd
SpecPickup == InitPickup /\ [][NextPickup]_vars

\* ================================================================ claims
\* The target cell of the last call, for damageTile and breakTile.
ArgCol == lastCall.args[1]
ArgRow == lastCall.args[2]
\* Every cell other than (col, row) keeps type, durability and highlight.
OthersUnchanged(col, row) ==
  \A r \in Rows, c \in Cols :
    (r # row \/ c # col) =>
      /\ tiles'[r][c] = tiles[r][c]
      /\ tileHp'[r][c] = tileHp[r][c]
      /\ tileHighlight'[r][c] = tileHighlight[r][c]

\* C1: in every state of a constructed map, every durability is >= 0 and no
\* cell of a destructible terrain type has durability 0.
C1_DurabilityInvariant ==
  phase = "ready" =>
    \A row \in Rows, col \in Cols :
      /\ tileHp[row][col] >= 0
      /\ (getTileType(tiles[row][col]).isDestructible => tileHp[row][col] # 0)

\* C1 witness: a mineral tile has just been destroyed by damageTile.
C1_Witness ==
  /\ lastCall.op = "damageTile"
  /\ lastCall.before \in {<<MINERAL, 20>>, <<MINERAL, 60>>, <<MINERAL, 100>>}
  /\ tiles[ArgRow][ArgCol] = DEFAULT
  /\ tileHp[ArgRow][ArgCol] = 0

\* C2 (as claimed): no damageTile call on an in-range cell increases that
\* cell's durability, whatever the amount.
C2_Monotonic ==
  [][(lastCall'.op = "damageTile" /\ InRange(ArgCol', ArgRow')) =>
       tileHp'[ArgRow'][ArgCol'] <= tileHp[ArgRow'][ArgCol']]_vars

\* C3: a cell of the default type keeps the default type and durability 0 in
\* every later step, and a damageTile call on it changes nothing of the grid.
C3_DestructionTerminal ==
  [][\A row \in Rows, col \in Cols :
       tiles[row][col] = DEFAULT =>
         /\ tiles'[row][col] = DEFAULT
         /\ tileHp'[row][col] = 0
         /\ (lastCall'.op = "damageTile" /\ ArgCol' = col /\ ArgRow' = row) =>
              UNCHANGED grid]_vars

\* C3 witness: damageTile has been called on a tile that an earlier damageTile
\* had destroyed (default type, its highlight timer still running).
C3_Witness ==
  /\ lastCall.op = "damageTile"
  /\ lastCall.before = <<DEFAULT, 0>>
  /\ tileHighlight[ArgRow][ArgCol] = highlightDuration

\* C4: damageTile out of range, on a non-destructible tile or on a tile whose
\* terrain defines no max durability, and breakTile out of range, do not throw
\* and leave every type, durability and highlight timer unchanged.
C4_NoOps ==
  [][/\ (/\ lastCall'.op = "damageTile"
         /\ \/ ~InRange(ArgCol', ArgRow')
            \/ ~getTileType(tiles[ArgRow'][ArgCol']).isDestructible
            \/ tiles[ArgRow'][ArgCol'] \notin DOMAIN terrainMap
            \/ terrainMap[tiles[ArgRow'][ArgCol']].maxHp = 0)
        => (UNCHANGED grid /\ ~threw')
     /\ (lastCall'.op = "breakTile" /\ ~InRange(ArgCol', ArgRow'))
        => (UNCHANGED grid /\ ~threw')]_vars

\* C4 witness: damageTile has been called on a wall while another tile holds
\* a highlight timer.
C4_Witness ==
  /\ lastCall.op = "damageTile"
  /\ lastCall.before = <<WALL, 0>>
  /\ \E row \in Rows, col \in Cols : tileHighlight[row][col] > 0

\* C5: on a destructible in-range cell of durability d > 0, damageTile with
\* amount a leaves durability max(0, d - a), sets the highlight timer to the
\* flash duration, makes the type default exactly when d - a <= 0, and changes
\* no other cell; from 100, hits of 40 leave 60, 20, then 0 and the default type.
C5_DamageEffect ==
  [][(/\ lastCall'.op = "damageTile"
      /\ InRange(ArgCol', ArgRow')
      /\ getTileType(tiles[ArgRow'][ArgCol']).isDestructible
      /\ tileHp[ArgRow'][ArgCol'] > 0) =>
       LET col == ArgCol'
           row == ArgRow'
           a == lastCall'.args[3]
           d == tileHp[row][col]
       IN  /\ tileHp'[row][col] = Max(0, d - a)
           /\ tileHighlight'[row][col] = highlightDuration
           /\ (tiles'[row][col] = DEFAULT) <=> (d - a <= 0)
           /\ (d - a > 0) => (tiles'[row][col] = tiles[row][col])
           /\ OthersUnchanged(col, row)
           /\ (d = 100 /\ a = 40) => (tileHp'[row][col] = 60)
           /\ (d = 60 /\ a = 40) => (tileHp'[row][col] = 20)
           /\ (d = 20 /\ a = 40) => (tileHp'[row][col] = 0 /\ tiles'[row][col] = DEFAULT)]_vars

\* C5 witness: the third hit of 40: a mineral tile of durability 20 has been
\* hit by 40 and is now the default type with durability 0, highlighted.
C5_Witness ==
  /\ lastCall.op = "damageTile"
  /\ lastCall.args[3] = 40
  /\ lastCall.before = <<MINERAL, 20>>
  /\ tiles[ArgRow][ArgCol] = DEFAULT
  /\ tileHp[ArgRow][ArgCol] = 0
  /\ tileHighlight[ArgRow][ArgCol] = highlightDuration

\* C6: breakTile on an in-range cell leaves that cell with the default type
\* and durability 0, and changes no other cell.
C6_BreakEffect ==
  [][(lastCall'.op = "breakTile" /\ InRange(ArgCol', ArgRow')) =>
       /\ tiles'[ArgRow'][ArgCol'] = DEFAULT
       /\ tileHp'[ArgRow'][ArgCol'] = 0
       /\ OthersUnchanged(ArgCol', ArgRow')]_vars

\* C6 witness: breakTile has broken a damaged mineral tile in one step.
C6_Witness ==
  /\ lastCall.op = "breakTile"
  /\ lastCall.before = <<MINERAL, 60>>
  /\ tiles[ArgRow][ArgCol] = DEFAULT
  /\ tileHp[ArgRow][ArgCol] = 0

\* C7: right after construction the grid has height rows of width cells, every
\* cell holds a terrain id of the catalog, and its durability is its terrain's
\* max durability, or 0 when the terrain defines none.
C7_Constructed ==
  (phase = "ready" /\ lastCall.op = "constructor") =>
    /\ DOMAIN tiles = 0 .. (height - 1)
    /\ \A row \in Rows :
         /\ DOMAIN tiles[row] = 0 .. (width - 1)
         /\ \A col \in Cols :
              /\ tiles[row][col] \in CatalogIds
              /\ tileHp[row][col] = terrainMap[tiles[row][col]].maxHp

\* C7 witness: a constructed 2 x 2 map holding all three catalog types.
C7_Witness ==
  /\ phase = "ready"
  /\ lastCall.op = "constructor"
  /\ width = 2
  /\ height = 2
  /\ \A t \in CatalogIds : \E row \in Rows, col \in Cols : tiles[row][col] = t
  /\ \E row \in Rows, col \in Cols : tileHp[row][col] = 100

\* The cells that the rectangle [x, x+w) x [y, y+h) overlaps, as <<row, col>>.
Overlapped(x, y, w, h) ==
  {rc \in (-2 .. (height + 1)) \X (-2 .. (width + 1)) :
     /\ rc[2] * TileUnits < x + w /\ (rc[2] + 1) * TileUnits > x
     /\ rc[1] * TileUnits < y + h /\ (rc[1] + 1) * TileUnits > y}

\* C8 (as claimed): isWalkableArea(x, y, size) is true exactly when every cell
\* the square overlaps is inside the grid and walkable.
C8_WalkableIffOverlappedWalkable ==
  lastCall.op = "isWalkableArea" =>
    (ret[1] <=> \A rc \in Overlapped(lastCall.args[1], lastCall.args[2],
                                     lastCall.args[3], lastCall.args[3]) :
                  InRange(rc[2], rc[1]) /\ Walkable(tiles[rc[1]][rc[2]]))

\* C9 (as claimed): for a query rectangle that overlaps a cell outside the
\* grid, isWalkableArea returns false and isCollidingRect returns true.
C9_BoundsSolid ==
  LET outside(w, h) == \E rc \in Overlapped(lastCall.args[1], lastCall.args[2], w, h) :
                         ~InRange(rc[2], rc[1])
  IN  /\ (lastCall.op = "isWalkableArea" /\ outside(lastCall.args[3], lastCall.args[3]))
         => ret = <<FALSE>>
      /\ (lastCall.op = "isCollidingRect" /\ outside(lastCall.args[3], lastCall.args[4]))
         => ret = <<TRUE>>

\* C10 (as claimed): getTileAtRect returns the first cell, in row-major order,
\* among the in-range non-walkable cells the square overlaps, with its
\* durability, and nothing when there is none.
C10_FirstOverlappedHit ==
  lastCall.op = "getTileAtRect" =>
    LET hits == {rc \in Overlapped(lastCall.args[1], lastCall.args[2],
                                   lastCall.args[3], lastCall.args[3]) :
                   InRange(rc[2], rc[1]) /\ ~Walkable(tiles[rc[1]][rc[2]])}
    IN  IF hits = {} THEN ret = <<>>
        ELSE \E rc \in hits :
               /\ \A o \in hits : rc[1] < o[1] \/ (rc[1] = o[1] /\ rc[2] <= o[2])
               /\ ret = <<rc[1], rc[2], tileHp[rc[1]][rc[2]]>>

\* C11: getSpeedFactor(x, y) returns the TILE_TYPES speed factor of the type
\* stored in the cell that contains the point (x, y), returns 1.0 (100
\* hundredths) when no cell of the grid contains the point, and does not throw.
C11_SpeedFactorOfCell ==
  lastCall.op = "getSpeedFactor" =>
    LET x == lastCall.args[1]
        y == lastCall.args[2]
        cells == {rc \in Rows \X Cols :
                    /\ rc[2] * TileUnits <= x /\ x < (rc[2] + 1) * TileUnits
                    /\ rc[1] * TileUnits <= y /\ y < (rc[1] + 1) * TileUnits}
    IN  /\ threw = FALSE
        /\ cells = {} => ret = <<100>>
        /\ \A rc \in cells : ret = <<TILE_TYPES[tiles[rc[1]][rc[2]]].speedFactor>>

\* C11 witness: getSpeedFactor has been asked about a point at a fractional
\* position inside a wall cell and has returned that terrain's factor, 0.
C11_Witness ==
  /\ lastCall.op = "getSpeedFactor"
  /\ lastCall.args = <<Sub + 1, Sub + 1>>
  /\ tiles[0][0] = WALL
  /\ ret = <<0>>

\* C12 (as claimed): the position an update resolves motion from lies in
\* [0, width*tileSize - size] x [0, height*tileSize - size], and it is the
\* position the update found when that one was already in this range.
C12_ClampedIntoGrid ==
  lastCall.op = "update" =>
    LET found == lastCall.before
        limited == limitPosition(found)
        maxX == width * TileUnits - Px(actorSize)
        maxY == height * TileUnits - Px(actorSize)
    IN  /\ 0 <= limited.x /\ limited.x <= maxX
        /\ 0 <= limited.y /\ limited.y <= maxY
        /\ (0 <= found.x /\ found.x <= maxX /\ 0 <= found.y /\ found.y <= maxY)
             => (limited.x = found.x /\ limited.y = found.y)

\* The pieces of the last update: what it found, its arguments, the velocity
\* it aimed at and the velocity it had before the position step.
Found == lastCall.before
ArgDelta == lastCall.args[1]
ArgMove == lastCall.args[2]
ArgLook == lastCall.args[3]
ArgCoin == lastCall.args[4]
Aimed == targetVelocity(limitPosition(Found), ArgMove)
Accelerated == updateVelocityNonlinear(limitPosition(Found), Aimed, ArgMove, ArgDelta)
Speed(a) == Length(a.vx, a.vy)
\* The largest change of velocity in a frame of length delta.
StepOf(delta) ==
  (((accel * VelSub * delta) \div FrameHz) * Sqrt((1000 + nonlinearFactor) * 1000)) \div 1000

\* C13 (as claimed): the speed exceeds neither maxSpeed nor maxSpeed times the
\* speed factor of the tile under the actor by more than one frame's step, and
\* under a constant movement input it converges to the latter: a state that
\* the updates with this input leave as it is has that speed, within one step.
C13_SpeedConverges ==
  (lastCall.op = "update") =>
    /\ Speed(actor) <= maxSpeed * VelSub + StepOf(ArgDelta)
    /\ Speed(actor) <= (maxSpeed * VelSub * getSpeedFactor(actor.x, actor.y)) \div 100
                         + StepOf(ArgDelta)
    /\ \A delta \in FrameDeltas, intent \in Intents :
         (/\ intent[1] # Zero
          /\ \A coin \in BOOLEAN :
               updated(actor, delta, intent[1], intent[2], coin) = actor)
         => LET aimed == targetVelocity(actor, intent[1])
            IN  Length(aimed.x, aimed.y) - Speed(actor) <= StepOf(delta)

\* C13 (amended): after every update the speed is at most maxSpeed and at most
\* maxSpeed times the speed factor of the tile under the actor; an update with
\* a movement input brings the velocity to the target velocity or strictly
\* nearer to it; and the update leaves that velocity, but for the components
\* whose move was blocked, which it leaves 0.
C13_SpeedBoundedAndApproaches ==
  (lastCall.op = "update") =>
    LET near(v) == Length(Aimed.x - v.vx, Aimed.y - v.vy)
        moved == updatePosition(updateRotation(Accelerated, ArgDelta, ArgLook, ArgCoin), ArgDelta)
    IN  /\ Speed(actor) <= maxSpeed * VelSub
        /\ Speed(actor) <= (maxSpeed * VelSub * getSpeedFactor(actor.x, actor.y)) \div 100
        /\ ArgMove # Zero =>
             \/ Accelerated.vx = Aimed.x /\ Accelerated.vy = Aimed.y
             \/ near(Accelerated) < near(Found)
        /\ actor.vx = Accelerated.vx \/ (actor.vx = 0 /\ actor.x = limitPosition(Found).x)
        /\ actor.vy = Accelerated.vy \/ (actor.vy = 0 /\ actor.y = limitPosition(Found).y)

\* C13 witness: a second update with the same diagonal input has brought the
\* velocity from part of the target velocity to the target velocity.
C13_Witness ==
  /\ lastCall.op = "update"
  /\ ArgMove = SouthEast
  /\ Found.vx > 0
  /\ Found.vx < Aimed.x
  /\ actor.vx = Aimed.x
  /\ actor.vy = Aimed.y

\* C14 (as claimed): after every update the heading lies in (-pi, pi], and so
\* does the signed angular difference the update turned by.
C14_HeadingNormalised ==
  (lastCall.op = "update") =>
    LET target == targetAngle(Accelerated, ArgLook)
    IN  /\ -Pi < actor.currentRotation /\ actor.currentRotation <= Pi
        /\ target # <<>> =>
             LET angleDiff == angleDiffOf(Accelerated, target[1], ArgCoin)
             IN  -Pi < angleDiff /\ angleDiff <= Pi

\* C15: when the angular difference of an update is within the band around
\* pi, the update turns by +pi under "cw" and by -pi under "ccw", and under
\* these two strategies the actor it leaves is the same for both outcomes of
\* the coin; under "auto" the turn is +pi or -pi as the coin falls.
C15_ReversalDeterministic ==
  (lastCall.op = "update") =>
    LET target == targetAngle(Accelerated, ArgLook)
        raw == normalizeAngle(target[1] - Found.currentRotation)
        angleDiff == angleDiffOf(Accelerated, target[1], ArgCoin)
        maxRotation == (rotationSpeed * Pi * ArgDelta) \div FrameHz
        turnedBy(d) == normalizeAngle(IF Abs(d) > maxRotation
                                      THEN Found.currentRotation + Sign(d) * maxRotation
                                      ELSE target[1])
        strategy == Found.rotationStrategy
    IN  (target # <<>> /\ Abs(raw) > Pi - reversalBand /\ Abs(raw) < Pi + reversalBand) =>
          /\ strategy = "cw" => actor.currentRotation = turnedBy(Pi)
          /\ strategy = "ccw" => actor.currentRotation = turnedBy(-Pi)
          /\ strategy = "auto" =>
               actor.currentRotation = turnedBy(IF ArgCoin THEN Pi ELSE -Pi)
          /\ strategy \in {"cw", "ccw"} =>
               \A coin \in BOOLEAN :
                 updated(Found, ArgDelta, ArgMove, ArgLook, coin) = [actor EXCEPT !.n = Found.n]

\* C15 witness: a clockwise actor heading 0 was told to look the opposite way
\* and has turned by one frame's rotation in the positive sense.
C15_Witness ==
  /\ lastCall.op = "update"
  /\ Found.rotationStrategy = "cw"
  /\ Found.currentRotation = 0
  /\ ArgLook = East
  /\ ArgDelta = 1
  /\ actor.currentRotation = (rotationSpeed * Pi) \div FrameHz

\* The actor as the position step of the last update found it, and the
\* position the step tried to reach.
Rotated == updateRotation(Accelerated, ArgDelta, ArgLook, ArgCoin)
NewX == Rotated.x + displacement(Rotated.vx, ArgDelta)
NewY == Rotated.y + displacement(Rotated.vy, ArgDelta)
Blocked(x, y) == isCollidingRect(x, y, Px(actorSize), Px(actorSize))

\* C16: in the position step of an update that moves on both axes, a blocked
\* x move leaves x and zeroes velocity.x, a clear one commits newX and keeps
\* velocity.x; the y move is then tested from the x just committed: blocked, it
\* leaves y and zeroes velocity.y, clear, it commits newY and keeps velocity.y.
\* So with x blocked and y clear the actor slides along y, and symmetrically.
C16_AxisIndependentSliding ==
  (/\ lastCall.op = "update"
   /\ Abs(Rotated.vx) * 10 > VelSub
   /\ Abs(Rotated.vy) * 10 > VelSub) =>
    LET committedX == IF Blocked(NewX, Rotated.y) THEN Rotated.x ELSE NewX
    IN  /\ Blocked(NewX, Rotated.y) => (actor.x = Rotated.x /\ actor.vx = 0)
        /\ ~Blocked(NewX, Rotated.y) => (actor.x = NewX /\ actor.vx = Rotated.vx)
        /\ Blocked(committedX, NewY) => (actor.y = Rotated.y /\ actor.vy = 0)
        /\ ~Blocked(committedX, NewY) => (actor.y = NewY /\ actor.vy = Rotated.vy)

\* C16 witness: a diagonal move whose x part was blocked and whose y part was
\* clear has left x where it was, velocity.x at 0, and has advanced y with
\* velocity.y kept.
C16_Witness ==
  /\ lastCall.op = "update"
  /\ Rotated.vx # 0
  /\ Blocked(NewX, Rotated.y)
  /\ ~Blocked(Rotated.x, NewY)
  /\ actor.x = Rotated.x
  /\ actor.vx = 0
  /\ actor.y = NewY
  /\ actor.y # Rotated.y
  /\ actor.vy = Rotated.vy
  /\ actor.vy # 0

\* C17: once a bullet's isDestroyed flag is set, every later step leaves it
\* set, leaves the bullet's position unchanged, makes no damageTile call and
\* leaves the grid unchanged.
C17_DestroyedTerminal ==
  [][(bullet.live /\ bullet.isDestroyed) =>
       /\ bullet'.isDestroyed
       /\ bullet'.x = bullet.x
       /\ bullet'.y = bullet.y
       /\ lastCall'.op # "damageTile"
       /\ UNCHANGED grid]_vars

\* C17 witness: update has been called on a bullet that an earlier step
\* destroyed while its candidate position was on a non-walkable tile.
C17_Witness ==
  /\ bullet.isDestroyed
  /\ bullet.n >= 2
  /\ lastCall.op = "Bullet.update"
  /\ getTileAtRect(candidate(bullet, bullet.delta).x, candidate(bullet, bullet.delta).y,
                   Px(bulletSize)) # <<>>

C20_SpawnSearch ==
  /\ [](/\ search.attempts <= MAX_ATTEMPTS
        /\ search.status = "returned" =>
             /\ ret # <<>>
             /\ isWalkableArea(ret[1], ret[2], search.size)
             /\ search.attempts < MAX_ATTEMPTS
             /\ ~threw
        /\ search.status = "threw" =>
             /\ threw
             /\ ret = <<>>
             /\ search.attempts = MAX_ATTEMPTS
        /\ (tiles = Ring /\ search.status = "returned") =>
             /\ Floor(ret[1], TileUnits) = 1
             /\ Floor(ret[2], TileUnits) = 1
             /\ search.size <= TileUnits
             /\ search.op = "getRandomWalkablePosition" =>
                  ret = <<TileUnits + (TileUnits - search.size) \div 2,
                          TileUnits + (TileUnits - search.size) \div 2>>)
  /\ [][search.status = "running" =>
          \/ search'.status \in {"returned", "threw"} /\ search'.attempts = search.attempts
          \/ search'.status = "running" /\ search'.attempts = search.attempts + 1]_vars

\* C20 witness: on the ring, a search for the player's size has returned the
\* centre cell's position after failed samples.
C20_Witness ==
  /\ tiles = Ring
  /\ search.status = "returned"
  /\ search.size = Px(49)
  /\ search.attempts >= 2
  /\ Floor(ret[1], TileUnits) = 1
  /\ Floor(ret[2], TileUnits) = 1

\* C24 (as claimed): the velocity an update aims at is the movement direction
\* times maxSpeed times the speed factor of the tile at the position the
\* update resolves motion from, and it is the zero vector where that speed
\* factor is 0.
C24_TargetVelocity ==
  (lastCall.op = "update") =>
    LET at == limitPosition(Found)
        factor == getSpeedFactor(at.x, at.y)
    IN  /\ Aimed.x = Quot(Quot(ArgMove.x * maxSpeed * VelSub, 10000) * factor, 100)
        /\ Aimed.y = Quot(Quot(ArgMove.y * maxSpeed * VelSub, 10000) * factor, 100)
        /\ factor = 0 => (Aimed.x = 0 /\ Aimed.y = 0)

\* The shortest angular distance between two headings, in [0, pi].
AngDist(a, b) ==
  LET d == (a - b) % (2 * Pi)
  IN  Min(d, 2 * Pi - d)
\* The direction an update is asked to face, without the code's offset
\* of pi: <<atan2(lookDir)>>, else <<atan2(velocity)>>, else <<>>.
Facing ==
  IF ArgLook # Zero THEN <<atan2(ArgLook.y, ArgLook.x)>>
  ELSE IF Accelerated.vx # 0 \/ Accelerated.vy # 0 THEN <<atan2(Accelerated.vy, Accelerated.vx)>>
  ELSE <<>>
MaxRotation(delta) == (rotationSpeed * Pi * delta) \div FrameHz

\* C25 (as claimed): an update turns the heading towards atan2(lookDir) if
\* there is a look direction, else towards atan2(velocity) if the velocity is
\* not zero, else leaves it; it reaches that angle when it is within a frame's
\* rotation, and a heading that updates with a held look direction no longer
\* change is the angle atan2(lookDir).
C25_HeadingTarget ==
  (lastCall.op = "update") =>
    /\ Facing = <<>> => actor.currentRotation = Found.currentRotation
    /\ Facing # <<>> =>
         /\ \/ AngDist(actor.currentRotation, Facing[1]) = 0
            \/ AngDist(actor.currentRotation, Facing[1]) < AngDist(Found.currentRotation, Facing[1])
         /\ AngDist(Found.currentRotation, Facing[1]) <= MaxRotation(ArgDelta) =>
              AngDist(actor.currentRotation, Facing[1]) = 0
    /\ (/\ ArgLook # Zero
        /\ \A delta \in FrameDeltas, coin \in BOOLEAN :
             updateRotation(actor, delta, ArgLook, coin).currentRotation = actor.currentRotation)
       => AngDist(actor.currentRotation, atan2(ArgLook.y, ArgLook.x)) = 0

\* C25 (amended): the angle an update turns towards is atan2(lookDir) + pi if
\* there is a look direction, else atan2(velocity) + pi if the velocity is not
\* zero, else the heading is left; the update reaches that angle (modulo 2 pi)
\* when it is within a frame's rotation and else comes nearer to it, and a
\* heading that updates with a held look direction no longer change is the
\* angle atan2(lookDir) + pi.
C25_HeadingTargetOffset ==
  (lastCall.op = "update") =>
    /\ Facing = <<>> => actor.currentRotation = Found.currentRotation
    /\ Facing # <<>> =>
         /\ \/ AngDist(actor.currentRotation, Facing[1] + Pi) = 0
            \/ AngDist(actor.currentRotation, Facing[1] + Pi)
                 < AngDist(Found.currentRotation, Facing[1] + Pi)
         /\ AngDist(Found.currentRotation, Facing[1] + Pi) <= MaxRotation(ArgDelta) =>
              AngDist(actor.currentRotation, Facing[1] + Pi) = 0
    /\ (/\ ArgLook # Zero
        /\ \A delta \in FrameDeltas, coin \in BOOLEAN :
             updateRotation(actor, delta, ArgLook, coin).currentRotation = actor.currentRotation)
       => AngDist(actor.currentRotation, atan2(ArgLook.y, ArgLook.x) + Pi) = 0

\* C25 witness: an actor heading 0 was told to look north for a quarter of a
\* second and now heads atan2(north) + pi = pi / 2.
C25_Witness ==
  /\ lastCall.op = "update"
  /\ ArgLook = North
  /\ ArgDelta = 4
  /\ Found.currentRotation = 0
  /\ actor.currentRotation = Pi \div 2

\* The last rotation step: the rotation allowed, the actor it found after the
\* velocity step, its target and the difference it turned by.
Turned == lastCall.op \in {"update", "updateRotation"}
ArgMaxRotation ==
  IF lastCall.op = "update" THEN MaxRotation(ArgDelta) ELSE lastCall.args[1]
Heading == IF lastCall.op = "update" THEN Accelerated ELSE Found
Target ==
  targetAngle(Heading, IF lastCall.op = "update" THEN ArgLook ELSE lastCall.args[2])
Resolved ==
  angleDiffOf(Heading, Target[1], IF lastCall.op = "update" THEN ArgCoin ELSE lastCall.args[3])

\* C26 (as claimed): a rotation step changes the heading by at most
\* rotationSpeed * dt, measured as the shortest angular distance, and when the
\* target is not farther than that, the heading becomes the target angle.
C26_RotationClamped ==
  Turned =>
    /\ AngDist(actor.currentRotation, Found.currentRotation) <= ArgMaxRotation
    /\ (Target # <<>> /\ AngDist(Found.currentRotation, Target[1]) <= ArgMaxRotation) =>
         AngDist(actor.currentRotation, Target[1]) = 0

\* C26 (amended): a rotation step changes the heading by at most
\* rotationSpeed * dt; when the difference it turns by (which is +pi or -pi
\* when the target is within 0.01 rad of the opposite direction) is not larger
\* than that, the heading becomes the target angle modulo 2 pi, and else it
\* changes by exactly rotationSpeed * dt.
C26_RotationClampedAfterTieBreak ==
  Turned =>
    /\ AngDist(actor.currentRotation, Found.currentRotation) <= ArgMaxRotation
    /\ (Target # <<>> /\ Abs(Resolved) <= ArgMaxRotation) =>
         AngDist(actor.currentRotation, Target[1]) = 0
    /\ (Target # <<>> /\ Abs(Resolved) > ArgMaxRotation) =>
         AngDist(actor.currentRotation, Found.currentRotation) = ArgMaxRotation

\* C26 witness: a heading three quarters of pi from the target has been
\* turned by a frame's pi / 4, and not farther.
C26_Witness ==
  /\ lastCall.op = "update"
  /\ Target # <<>>
  /\ AngDist(Found.currentRotation, Target[1]) = 3 * MaxRotation(1)
  /\ ArgDelta = 1
  /\ AngDist(actor.currentRotation, Found.currentRotation) = MaxRotation(1)
  /\ AngDist(actor.currentRotation, Target[1]) = 2 * MaxRotation(1)

\* C27: the velocity an update leaves its blend step with is the zero vector
\* or at least 1 long; without a movement input the blend brings the speed to
\* exactly 0 or lowers it by the frame's deceleration step (whose length
\* does not depend on the speed), so a coasting actor is at rest after
\* finitely many updates.
C27_SnapToZero ==
  (lastCall.op = "update") =>
    LET before == limitPosition(Found)
        after == Accelerated
        step == maxDelta(before, Aimed, ArgMove, ArgDelta)
    IN  /\ \/ after.vx = 0 /\ after.vy = 0
           \/ after.vx * after.vx + after.vy * after.vy >= VelSub * VelSub
        /\ ArgMove = Zero =>
             /\ step > 0
             /\ step = maxDelta([before EXCEPT !.vx = 0, !.vy = 0], Aimed, ArgMove, ArgDelta)
             /\ \/ after.vx = 0 /\ after.vy = 0
                \/ Speed(after) <= Speed(before) - step + 2

\* C27 witness: an actor coasting at 92.5 px/s was slowed by a frame's
\* deceleration to less than 1 px/s, which the update has made 0.
C27_Witness ==
  /\ lastCall.op = "update"
  /\ ArgMove = Zero
  /\ Found.vx = 925
  /\ Found.vx - maxDelta(limitPosition(Found), Aimed, ArgMove, ArgDelta) > 0
  /\ Found.vx - maxDelta(limitPosition(Found), Aimed, ArgMove, ArgDelta) < VelSub
  /\ actor.vx = 0
  /\ actor.vy = 0

\* C30 (as claimed): an update that finds the actor's footprint not colliding
\* leaves it not colliding.
C30_NeverEndsColliding ==
  (lastCall.op = "update" /\ ~Blocked(Found.x, Found.y)) => ~Blocked(actor.x, actor.y)

\* The type the first-match rule gives for the draw r1 of an iteration: that
\* of the first catalog entry whose cumulative threshold exceeds the sample,
\* the default type when there is none.
FirstMatch(r1) ==
  LET n == noise(r1)
      firsts == {i \in DOMAIN terrainConfigs :
                   n < Threshold(i) /\ \A j \in 1 .. (i - 1) : ~(n < Threshold(j))}
  IN  IF firsts = {} THEN DEFAULT ELSE terrainConfigs[CHOOSE i \in firsts : TRUE].type
\* The types of the cells left of and above the cell being generated.
LeftAndTop ==
  (IF genCol > 0 THEN {tiles[genRow][genCol - 1]} ELSE {})
    \cup (IF genRow > 0 THEN {tiles[genRow - 1][genCol]} ELSE {})

\* C28: whatever the draws, an iteration of the generation loop gives its cell
\* (genRow, genCol) either the type of the first catalog entry whose cumulative
\* threshold exceeds the sample (the default type when none does), or the type
\* of the cell to its left or above it, which are generated already; cell
\* (0, 0) gets its sampled type; the cells to the right and below are not yet
\* generated when it runs, and it writes no cell but its own, so no cell is
\* influenced by a cell generated after it.
C28_SampledOrInherited ==
  /\ [](phase = "constructing" =>
          /\ \A r1 \in RandomDraws, r2 \in RandomDraws, r3 \in RandomDraws :
               LET key == FinalType(genCol, genRow, r1, r2, r3)
               IN  /\ key \in {FirstMatch(r1)} \cup LeftAndTop
                   /\ (genRow = 0 /\ genCol = 0) => key = FirstMatch(r1)
          /\ Undefined \notin LeftAndTop
          /\ \A row \in Rows, col \in Cols :
               (row > genRow \/ (row = genRow /\ col >= genCol)) <=> tiles[row][col] = Undefined)
  /\ [][phase = "constructing" =>
          /\ tiles'[genRow][genCol] \in {FirstMatch(r1) : r1 \in RandomDraws} \cup LeftAndTop
          /\ \A row \in Rows, col \in Cols :
               (row # genRow \/ col # genCol) => tiles'[row][col] = tiles[row][col]]_vars

\* C28 witness: a generated 2 x 2 map whose last cell has the mineral of the
\* cell above it while the cell to its left is a wall.
C28_Witness ==
  /\ phase = "ready"
  /\ lastCall.op = "constructor"
  /\ width = 2
  /\ height = 2
  /\ tiles[0][0] = DEFAULT
  /\ tiles[0][1] = MINERAL
  /\ tiles[1][0] = WALL
  /\ tiles[1][1] = MINERAL

\* The non-walkable cells of the row at height y that lie wholly between a
\* bullet's box at x0 and its box at x1.
WallsBetween(x0, x1, y) ==
  {col \in Cols : /\ Floor(y, TileUnits) \in Rows
                  /\ ~Walkable(tiles[Floor(y, TileUnits)][col])
                  /\ Min(x0, x1) + Px(bulletSize) <= col * TileUnits
                  /\ (col + 1) * TileUnits <= Max(x0, x1)}

\* C29: collision is tested at the candidate position only: an update of a
\* live bullet whose candidate position hits no tile and is on the map commits
\* that position, keeps the bullet alive, calls no damageTile and leaves the
\* grid as it is, whatever lies between the old and the new position.
C29_SingleStepCollision ==
  [][(bullet.live /\ ~bullet.isDestroyed /\ bullet'.n = bullet.n + 1) =>
       LET new == candidate(bullet, bullet'.delta)
       IN  (getTileAtRect(new.x, new.y, Px(bulletSize)) = <<>> /\ ~leftMap(new.x, new.y)) =>
             /\ bullet'.x = new.x
             /\ bullet'.y = new.y
             /\ ~bullet'.isDestroyed
             /\ lastCall'.op = "Bullet.update"
             /\ grid' = grid]_vars

\* C29 witness: a bullet fired east at the wall of the corridor has, in one
\* frame of 1/8 s (100 px, two tiles), passed from the near side of the wall
\* to its far side; it is alive, no damageTile was called, the wall stands.
C29_Witness ==
  /\ tiles = Corridor
  /\ bullet.live
  /\ ~bullet.isDestroyed
  /\ bullet.n = 1
  /\ bullet.vy = 0
  /\ displacement(bullet.vx, bullet.delta) > TileUnits
  /\ WallsBetween(bullet.x - displacement(bullet.vx, bullet.delta), bullet.x, bullet.y) = {1}
  /\ bullet.x >= 2 * TileUnits
  /\ lastCall.op = "Bullet.update"
  /\ tiles[0][1] = WALL

\* The order of the steps of a frame.
TickOrder ==
  {<<"idle", "velocity">>, <<"velocity", "heading">>, <<"heading", "position">>,
   <<"position", "shoot">>, <<"shoot", "bullets">>, <<"bullets", "rest">>, <<"rest", "idle">>}

\* C21: the steps of a frame run in the order velocity, heading, position,
\* shot, projectile updates, rest; the velocity step changes of the actor only
\* its velocity (and the clamped position), the heading step only its heading,
\* the position step only its position and velocity, and nothing else changes
\* the actor; a projectile is updated or removed only in the projectile step,
\* after these three; within a frame the grid is changed by the projectile
\* step only, through damageTile, and by no step after it.
C21_TickOrder ==
  /\ [][tick'.pc # tick.pc => <<tick.pc, tick'.pc>> \in TickOrder]_vars
  /\ [][/\ actor' # actor => tick.pc \in {"velocity", "heading", "position"}
        /\ tick.pc = "velocity" =>
             actor' = [actor EXCEPT !.vx = actor'.vx, !.vy = actor'.vy,
                                    !.x = limitPosition(actor).x, !.y = limitPosition(actor).y]
        /\ tick.pc = "heading" =>
             actor' = [actor EXCEPT !.currentRotation = actor'.currentRotation]
        /\ tick.pc = "position" =>
             actor' = [actor EXCEPT !.x = actor'.x, !.y = actor'.y, !.vx = actor'.vx,
                                    !.vy = actor'.vy, !.n = actor.n + 1]
        /\ bullet' # bullet => tick.pc \in {"shoot", "bullets"}
        /\ (bullet' # bullet /\ tick.pc = "shoot") => (~bullet.live /\ bullet'.n = 0)
        /\ (tick.pc # "idle" /\ grid' # grid) =>
             (tick.pc = "bullets" /\ lastCall'.op = "damageTile")]_vars

\* C21 witness: a frame in which the player accelerated, turned and slid
\* south along the mineral, then shot east, and whose projectile step has
\* damaged the mineral; the rest of the frame is still to run.
C21_Witness ==
  /\ tick.pc = "rest"
  /\ tick.n = 0
  /\ actor.n = 1
  /\ actor.vy > 0
  /\ actor.y > 1
  /\ actor.currentRotation # 0
  /\ lastCall.op = "damageTile"
  /\ tiles[0][1] = MINERAL
  /\ tileHp[0][1] = 90

\* C22 (as claimed): the velocity, heading and position steps of a frame
\* change nothing but the actor's position, velocity and heading (and its
\* count of updates): not the grid, no bullet, no search; and every change of
\* a cell's type, durability or highlight timer is made by damageTile or
\* breakTile.
C22_ActorWritesOnlyItself ==
  /\ [][tick.pc \in {"velocity", "heading", "position"} =>
          /\ grid' = grid
          /\ <<bullet, search, pickup>>' = <<bullet, search, pickup>>
          /\ actor' = [actor EXCEPT !.x = actor'.x, !.y = actor'.y, !.vx = actor'.vx,
                                    !.vy = actor'.vy, !.currentRotation = actor'.currentRotation,
                                    !.n = actor'.n]]_vars
  /\ [][grid' # grid => lastCall'.op \in {"damageTile", "breakTile"}]_vars

\* C22 (amended): as claimed for the actor's steps; every change of a cell's
\* type or durability is made by damageTile or breakTile, and every change of
\* a highlight timer by damageTile or by draw, which lets it decay.
C22_ActorWritesOnlyItselfDrawDecays ==
  /\ [][tick.pc \in {"velocity", "heading", "position"} =>
          /\ grid' = grid
          /\ <<bullet, search, pickup>>' = <<bullet, search, pickup>>
          /\ actor' = [actor EXCEPT !.x = actor'.x, !.y = actor'.y, !.vx = actor'.vx,
                                    !.vy = actor'.vy, !.currentRotation = actor'.currentRotation,
                                    !.n = actor'.n]]_vars
  /\ [][/\ <<tiles, tileHp>>' # <<tiles, tileHp>> => lastCall'.op \in {"damageTile", "breakTile"}
        /\ tileHighlight' # tileHighlight => lastCall'.op \in {"damageTile", "draw"}]_vars

\* C22 witness: the position step of the second frame has moved the player
\* south, with the mineral damaged in the first frame as that frame left it.
C22_Witness ==
  /\ tick.pc = "shoot"
  /\ tick.n = 1
  /\ actor.n = 2
  /\ actor.y > 1
  /\ actor.vy > 0
  /\ tiles[0][1] = MINERAL
  /\ tileHp[0][1] = 90
  /\ tileHighlight[0][1] = highlightDuration

\* C23 (as claimed): when a spawn search has exhausted its attempts, the
\* error has reached the requester and the request is over: it makes no
\* further search.
C23_ExhaustionNotRetried ==
  pickup.caught > 0 => (threw /\ pickup.status # "looping")

\* Whole-pixel query positions along x and y: left of the grid, on its edge,
\* one and two pixels in, straddling the first tile boundary, and one pixel
\* into the last column or row; whole-pixel sizes up to a tile.
WholeXs == {-Px(5), 0, Px(1), Px(2), Px(45), (width - 1) * TileUnits + Px(1)}
WholeYs == {-Px(5), 0, Px(1), Px(2), Px(45), (height - 1) * TileUnits + Px(1)}
WholeSizes == {Px(1), Px(49), Px(tileSize)}
QueryOps == {"isWalkableArea", "isCollidingRect", "getTileAtRect"}
InsideBounds(x, y, size) ==
  x >= 0 /\ y >= 0 /\ x + size <= width * TileUnits /\ y + size <= height * TileUnits
WholePixels(args) == \A i \in DOMAIN args : args[i] % Sub = 0

\* C31: on the grid of every query call, for whole-pixel x, y and size >= 1,
\* isWalkableArea is the negation of isCollidingRect on the same square, and
\* for a square inside the grid's pixel bounds isCollidingRect is true exactly
\* when getTileAtRect returns a tile; what the call returned agrees with the
\* other queries in the same way.
C31_QueriesAgree ==
  (phase = "ready" /\ lastCall.op \in QueryOps) =>
    /\ \A x \in WholeXs, y \in WholeYs, size \in WholeSizes :
         /\ isWalkableArea(x, y, size) <=> ~isCollidingRect(x, y, size, size)
         /\ InsideBounds(x, y, size) =>
              (isCollidingRect(x, y, size, size) <=> getTileAtRect(x, y, size) # <<>>)
    /\ WholePixels(lastCall.args) =>
         LET x == lastCall.args[1]
             y == lastCall.args[2]
             size == lastCall.args[3]
         IN  /\ lastCall.op = "isWalkableArea" => ret[1] = ~isCollidingRect(x, y, size, size)
             /\ lastCall.op = "isCollidingRect" => ret[1] = ~isWalkableArea(x, y, size)
             /\ (lastCall.op = "getTileAtRect" /\ InsideBounds(x, y, size)) =>
                  (ret # <<>> <=> isCollidingRect(x, y, size, size))

\* C31 witness: a whole-pixel square inside the grid's bounds was found
\* colliding, and getTileAtRect returns a tile for it.
C31_Witness ==
  /\ phase = "ready"
  /\ lastCall.op = "isCollidingRect"
  /\ WholePixels(lastCall.args)
  /\ InsideBounds(lastCall.args[1], lastCall.args[2], lastCall.args[3])
  /\ ret = <<TRUE>>
  /\ getTileAtRect(lastCall.args[1], lastCall.args[2], lastCall.args[3]) # <<>>
  /\ ~isWalkableArea(lastCall.args[1], lastCall.args[2], lastCall.args[3])

\* C32: over its lifetime a bullet makes at most one damageTile call; a call
\* is made only by the update that sets isDestroyed, changes at most the one
\* cell it names, and is the only way the grid changes; a bullet whose
\* isDestroyed was set by leaving the map or by destroy() has made none.
C32_DamagesAtMostOnce ==
  /\ [](/\ bullet.hits <= 1
        /\ bullet.hits = 1 => (bullet.isDestroyed /\ bullet.cause = "hit")
        /\ bullet.cause \in {"left", "destroy"} => (bullet.isDestroyed /\ bullet.hits = 0))
  /\ [][/\ (lastCall'.op = "damageTile" \/ grid' # grid \/ bullet'.hits # bullet.hits) =>
             /\ bullet.live /\ ~bullet.isDestroyed /\ bullet'.isDestroyed
             /\ bullet'.n = bullet.n + 1
             /\ bullet'.hits = bullet.hits + 1
             /\ lastCall'.op = "damageTile"
             /\ OthersUnchanged(lastCall'.args[1], lastCall'.args[2])
        /\ (bullet.live /\ ~bullet.isDestroyed /\ bullet'.isDestroyed
              /\ lastCall'.op # "damageTile") =>
             (bullet'.hits = 0 /\ bullet'.cause \in {"left", "destroy"})]_vars

\* C32 witness: a bullet has damaged a mineral, and has been updated and
\* destroy()ed again since: the mineral has lost the bullet's damage once.
C32_Witness ==
  /\ bullet.hits = 1
  /\ bullet.cause = "hit"
  /\ bullet.damage = 10
  /\ bullet.n >= 2
  /\ lastCall.op = "Bullet.destroy"
  /\ \E row \in Rows, col \in Cols : tiles[row][col] = MINERAL /\ tileHp[row][col] = 90

getHeatPercentage(w) == 1000 - Quot(w.shootingTimeRemaining * 1000, maxShootingTime)
getOverheatCooldownProgress(w) ==
  IF ~w.isOverheated THEN 0
  ELSE 1000 - Quot(w.overheatCooldownRemaining * 1000, maxOverheatCooldownTime)

\* C34 (as claimed): in every state of the player,
\* 0 <= shootingTimeRemaining <= maxShootingTime, getHeatPercentage() lies in
\* [0, 1] and getOverheatCooldownProgress() lies in [0, 1].
C34_HeatWithinBounds ==
  /\ 0 <= weapon.shootingTimeRemaining
  /\ weapon.shootingTimeRemaining <= maxShootingTime
  /\ getHeatPercentage(weapon) \in 0 .. 1000
  /\ getOverheatCooldownProgress(weapon) \in 0 .. 1000

\* The update that a step makes: its frame time in ms, its look direction.
UpdateMs == Ms(lastCall'.args[1])
Aiming == lastCall'.args[3].x # 0 \/ lastCall'.args[3].y # 0
Overheating == ~weapon.isOverheated /\ weapon'.isOverheated

\* C35: the weapon becomes overheated only by an update that attempts a shot
\* (the look direction is not zero) with shootingTimeRemaining <= 0; an
\* update that leaves the weapon overheated creates no bullet; an overheated
\* weapon stays so while the time of its updates since the overheat began,
\* maxOverheatCooldownTime - overheatCooldownRemaining, is below
\* maxOverheatCooldownTime, and the update that brings it there ends the
\* overheat, resets the countdown to maxOverheatCooldownTime and restores
\* shootingTimeRemaining to maxShootingTime (less fireRate when the same update
\* goes on to fire).
C35_OverheatCycle ==
  /\ [](/\ ~weapon.isOverheated => weapon.overheatCooldownRemaining = maxOverheatCooldownTime
        /\ weapon.isOverheated =>
             /\ weapon.overheatCooldownRemaining > 0
             /\ weapon.overheatCooldownRemaining <= maxOverheatCooldownTime
             /\ weapon.fired = 0)
  /\ [][LET elapsed == maxOverheatCooldownTime - weapon.overheatCooldownRemaining
        IN  /\ Overheating => (Aiming /\ weapon.shootingTimeRemaining <= 0)
            /\ (weapon.isOverheated /\ elapsed + UpdateMs < maxOverheatCooldownTime) =>
                 /\ weapon'.isOverheated
                 /\ weapon'.fired = 0
                 /\ weapon'.overheatCooldownRemaining = weapon.overheatCooldownRemaining - UpdateMs
            /\ (weapon.isOverheated /\ elapsed + UpdateMs >= maxOverheatCooldownTime) =>
                 /\ ~weapon'.isOverheated
                 /\ weapon'.overheatCooldownRemaining = maxOverheatCooldownTime
                 /\ weapon'.shootingTimeRemaining = maxShootingTime - fireRate * weapon'.fired
                 /\ weapon'.fired = (IF Aiming THEN 1 ELSE 0)]_vars

\* C35 witness: an overheat has run its time and ended in an update without a
\* look direction: the shooting time is full again, the fire cooldown is the 0
\* that the start of the overheat left, and the last bullet was created less
\* than fireRate of non-overheated update time ago.
C35_Witness ==
  /\ ~weapon.isOverheated
  /\ weapon.shootingTimeRemaining = maxShootingTime
  /\ weapon.overheatCooldownRemaining = maxOverheatCooldownTime
  /\ weapon.fireCooldown = 0
  /\ weapon.sinceShot < fireRate
  /\ weapon.sinceAny = fireRate

\* C36 (as claimed): an update creates at most one bullet; a bullet is created
\* only when the updates in the non-overheated branch since the last bullet
\* (this one included) have lasted at least fireRate; a created bullet lowers
\* shootingTimeRemaining by exactly fireRate.
C36_FireRateLimited ==
  /\ [](weapon.fired <= 1 /\ weapon.gap >= fireRate)
  /\ [][weapon'.fired = 1 =>
          weapon'.shootingTimeRemaining =
            (IF weapon.isOverheated THEN maxShootingTime ELSE weapon.shootingTimeRemaining)
              - fireRate]_vars

\* C36 (amended): an update creates at most one bullet; a bullet is created
\* only when the updates since the last bullet (this one included, overheated
\* or not) have lasted at least fireRate, and only with a fire cooldown that
\* is <= 0 after this update's decrement; the fire cooldown is fireRate after
\* a shot, is lowered only by the time of non-overheated updates, and is reset
\* to 0 by the start of an overheat; a created bullet lowers
\* shootingTimeRemaining by exactly fireRate.
C36_FireRateLimitedOrOverheated ==
  /\ [](weapon.fired <= 1)
  /\ [][LET cooldown == IF ~weapon.isOverheated /\ weapon.fireCooldown > 0
                        THEN weapon.fireCooldown - UpdateMs ELSE weapon.fireCooldown
        IN  /\ weapon'.fired = 1 =>
                 /\ Min(fireRate, weapon.sinceAny + UpdateMs) >= fireRate
                 /\ cooldown <= 0
                 /\ weapon'.fireCooldown = fireRate
                 /\ weapon'.shootingTimeRemaining =
                      (IF weapon.isOverheated THEN maxShootingTime
                       ELSE weapon.shootingTimeRemaining) - fireRate
            /\ (weapon'.fired = 0 /\ ~Overheating) => weapon'.fireCooldown = cooldown
            /\ Overheating => weapon'.fireCooldown = 0]_vars

\* C36 witness: a bullet has been created after an overheat, when the
\* non-overheated updates since the bullet before it had lasted less than
\* fireRate.
C36_Witness ==
  /\ weapon.fired = 1
  /\ weapon.gap < fireRate
  /\ weapon.shootingTimeRemaining = maxShootingTime - fireRate
  /\ weapon.fireCooldown = fireRate

\* C37: after every Player.update the label is "shooting" if the firing flag
\* is set, otherwise "moving" if |velocity| > 0.1, otherwise "idle"; and the
\* position, velocity and heading after the update are those that
\* Entities.update computes from the position, velocity and heading before
\* it and the inputs, whatever the label and the weapon were.
C37_LabelDerived ==
  /\ [](weapon.label = (IF weapon.isShooting THEN "shooting"
                        ELSE IF Length(actor.vx, actor.vy) * 10 > VelSub THEN "moving"
                        ELSE "idle"))
  /\ [][actor' = updated(actor, lastCall'.args[1], lastCall'.args[2], lastCall'.args[3],
                         lastCall'.args[5])]_vars

\* C37 witness: a player who moves and holds an arrow key is "shooting",
\* after an update that found it "moving".
C37_Witness ==
  /\ weapon.label = "shooting"
  /\ Length(actor.vx, actor.vy) * 10 > VelSub
  /\ Length(Found.vx, Found.vy) * 10 > VelSub
  /\ lastCall.op = "Player.update"
  /\ weapon.n >= 2

\* A transition is pending.
Pending ==
  sceneManager.isTransitioning /\ sceneManager.currentScene # NoScene
                               /\ sceneManager.nextScene # NoScene
\* The hooks of the given kind that the last call made.
HooksOf(h) == {i \in DOMAIN sceneManager.hooks : sceneManager.hooks[i].hook = h}
\* The parts of the transition protocol that do not speak of the scenes'
\* update: the first scene, the update that replaces the current scene and
\* the order of its hooks, the other calls, and the end of every transition.
SceneFirst ==
  (lastCall'.op = "SceneManager.changeScene" /\ sceneManager.currentScene = NoScene)
    => /\ sceneManager'.currentScene = lastCall'.args[1]
       /\ sceneManager'.hooks = <<Hook("onEnter", lastCall'.args[1])>>
       /\ ~Pending'
SceneReplaced ==
  (lastCall'.op = "SceneManager.update" /\ Pending
     /\ sceneManager'.since >= sceneManager.transitionDuration)
    => /\ sceneManager'.currentScene = sceneManager.nextScene
       /\ Len(sceneManager'.hooks) >= 2
       /\ sceneManager'.hooks[1] = Hook("onExit", sceneManager.currentScene)
       /\ sceneManager'.hooks[2] = Hook("onEnter", sceneManager.nextScene)
       /\ \A i \in DOMAIN sceneManager'.hooks :
            i > 2 => sceneManager'.hooks[i].hook = "update"
       /\ ~Pending'
       /\ ~sceneManager'.isTransitioning
       /\ sceneManager'.nextScene = NoScene
SceneKept ==
  (sceneManager.currentScene # NoScene
     /\ ~(lastCall'.op = "SceneManager.update" /\ Pending
            /\ sceneManager'.since >= sceneManager.transitionDuration))
    => /\ sceneManager'.currentScene = sceneManager.currentScene
       /\ \A i \in DOMAIN sceneManager'.hooks : sceneManager'.hooks[i].hook = "update"
       /\ Pending => (Pending' \/ lastCall'.op = "SceneManager.changeScene")
SceneCompletes ==
  \A k \in 0 .. MaxRequests :
    (Pending /\ sceneManager.requests = k) ~> (~Pending \/ sceneManager.requests > k)
SceneProtocol ==
  /\ [][SceneFirst /\ SceneReplaced /\ SceneKept]_vars
  /\ SceneCompletes

\* C38: changeScene with no current scene makes the scene current at once
\* and calls its onEnter; otherwise the current scene is replaced only in the
\* update in which the time since the request reaches the duration, that
\* update calls the outgoing scene's onExit once and before the incoming
\* scene's onEnter and leaves no transition pending; with no further request
\* a pending transition completes; and no scene is updated before its onEnter.
C38_TransitionProtocol ==
  /\ SceneProtocol
  /\ [](\A i \in HooksOf("update") : sceneManager.hooks[i].scene \in sceneManager.entered)

\* C38, amended: as above, but a scene is updated before its onEnter while it
\* is the next scene of a pending transition (and only then): every update
\* of the manager that leaves the transition pending updates the current
\* scene and then the next one.
C38_TransitionProtocolUpdatesNext ==
  /\ SceneProtocol
  /\ [](\A i \in HooksOf("update") :
          \/ sceneManager.hooks[i].scene \in sceneManager.entered
          \/ Pending /\ sceneManager.hooks[i].scene = sceneManager.nextScene)
  /\ []((lastCall.op = "SceneManager.update" /\ Pending)
          => sceneManager.hooks = <<Hook("update", sceneManager.currentScene),
                                    Hook("update", sceneManager.nextScene)>>)
\* A transition of half a second has just completed, after more than one
\* update; the incoming scene had not been entered before, and was updated.
C38_Witness ==
  /\ lastCall.op = "SceneManager.update"
  /\ lastCall.before.isTransitioning
  /\ lastCall.before.transitionDuration = defaultDuration
  /\ lastCall.before.transitionTime > 0
  /\ ~(lastCall.before.nextScene \in lastCall.before.entered)
  /\ sceneManager.currentScene = lastCall.before.nextScene
  /\ sceneManager.currentScene # lastCall.before.currentScene
  /\ ~sceneManager.isTransitioning
  /\ Len(sceneManager.hooks) = 3

\* The identities in the active list and in the pool.
ActiveIds == {particleSystem.particles[i].id : i \in DOMAIN particleSystem.particles}
PooledIds == {particleSystem.particlePool[i] : i \in DOMAIN particleSystem.particlePool}
\* C39: after any sequence of createExplosion and update calls the active
\* list holds at most maxParticles particles, the pool at most 200, no
\* particle is in both; a particle leaves the pool when it is reused, and no
\* particle is twice in the list or twice in the pool.
C39_ParticleBounds ==
  /\ Len(particleSystem.particles) <= maxParticles
  /\ Len(particleSystem.particlePool) <= maxPooled
  /\ ActiveIds \cap PooledIds = {}
  /\ Cardinality(ActiveIds) = Len(particleSystem.particles)
  /\ Cardinality(PooledIds) = Len(particleSystem.particlePool)
\* The list is full, the pool is full, and the last explosion reused pooled
\* particles.
C39_Witness ==
  /\ lastCall.op = "ParticleSystem.createExplosion"
  /\ ~threw
  /\ Len(lastCall.before.particlePool) = maxPooled
  /\ Len(particleSystem.particlePool) < maxPooled
  /\ Len(particleSystem.particles) = maxParticles
  /\ lastCall.args[1] > maxParticles - Len(lastCall.before.particles)

\* The callbacks of the given kind that the last call of the machine invoked.
Invoked(h) == {i \in DOMAIN stateMachine.hooks : stateMachine.hooks[i].hook = h}
\* C40: changeState(name) with the current state's name invokes no callback
\* and leaves the state; otherwise the current state's onExit is invoked
\* before the new state's onEnter, each once (where there is such a state and
\* it defines the callback), and getStateName() is name afterwards when a
\* state of that name was registered.
C40_ChangeStateIdempotent ==
  lastCall.op = "StateMachine.changeState" =>
    LET before == lastCall.before
        name == lastCall.args[1]
    IN  IF getStateName(before) = name
        THEN /\ stateMachine.hooks = <<>>
             /\ stateMachine.currentState = before.currentState
             /\ getStateName(stateMachine) = name
        ELSE /\ Cardinality(Invoked("onExit"))
                  = (IF "onExit" \in before.currentState.callbacks THEN 1 ELSE 0)
             /\ \A i \in Invoked("onExit") : stateMachine.hooks[i].state = before.currentState.name
             /\ Cardinality(Invoked("onEnter"))
                  = (IF name \in DOMAIN before.states /\ "onEnter" \in before.states[name].callbacks
                     THEN 1 ELSE 0)
             /\ \A i \in Invoked("onEnter") : stateMachine.hooks[i].state = name
             /\ \A i \in Invoked("onExit"), j \in Invoked("onEnter") : i < j
             /\ Len(stateMachine.hooks) = Cardinality(Invoked("onExit") \cup Invoked("onEnter"))
             /\ name \in DOMAIN before.states => getStateName(stateMachine) = name
             /\ name \in DOMAIN before.states => stateMachine.currentState = before.states[name]
\* The machine was asked for its current state, which defines both callbacks,
\* after a change that invoked an onExit and an onEnter.
C40_Witness ==
  /\ lastCall.op = "StateMachine.changeState"
  /\ getStateName(lastCall.before) = lastCall.args[1]
  /\ lastCall.before.currentState.callbacks = {"onEnter", "onExit"}
  /\ Len(lastCall.before.hooks) = 2
  /\ stateMachine.hooks = <<>>
====
